---- MODULE Spec2Model ----
(***************************************************************************)
(* Read-through user cache of gin-demo: logic.GetUserByID with its         *)
(* detached cache population, logic.CreateUser / logic.UpdateUser with     *)
(* their cache invalidation, the JSON boundary of model.User, and the     *)
(* request context the HTTP handler passes down.                           *)
(***************************************************************************)
EXTENDS Integers, Sequences, FiniteSets, TLC

\* ------------------------------------------------------------------ bounds
MaxReqs == 2        \* concurrent HTTP requests
MaxId == 2          \* user ids 1..MaxId
MaxFaults == 1      \* foreign (not written by this service) cache entries
MaxInvs == 2        \* invocations of functions TraceServiceFunc produced

Reqs == 1..MaxReqs
Ids == 1..MaxId
Names == {"A", "B"}
Emails == {"a@x.com", "b@x.com"}

\* ------------------------------------------------------- logic/constants.go
UserCacheKey == "user:"     \* the format "user:%d" without its verb
UserCacheTTL == 30          \* minutes

\* fmt.Sprintf of a format whose verb is missing: the id is not rendered
Sprintf_DropsVerb(format, id) == format

\* fmt.Sprintf(UserCacheKey, id)
Sprintf(format, id) == format \o ToString(id)

Keys == {Sprintf(UserCacheKey, i) : i \in Ids}

\* ------------------------------------------------------------ model/user.go
\* DeletedAt = 0 stands for gorm.DeletedAt{Valid: false} (SQL NULL);
\* CreatedAt / UpdatedAt are instants of the logical clock.
User(id, created, updated, deleted, name, email, age, status) ==
    [ID |-> id, CreatedAt |-> created, UpdatedAt |-> updated,
     DeletedAt |-> deleted, Name |-> name, Email |-> email,
     Age |-> age, Status |-> status]

\* &model.User{}
ZeroUser == User(0, 0, 0, 0, "", "", 0, 0)

\* ------------------------------------------------------- encoding/json text
\* A JSON text is modelled by its syntactic validity and, when valid, the
\* members of its top-level object in order; every member value is a token.
Num(n) == [t |-> "num", n |-> n, s |-> ""]
Str(s) == [t |-> "str", n |-> 0, s |-> s]
Null == [t |-> "null", n |-> 0, s |-> ""]
Member(k, v) == [k |-> k, v |-> v]
Doc(members) == [valid |-> TRUE, members |-> members]
BadSyntax == [valid |-> FALSE, members |-> <<>>]

\* time.Time.MarshalJSON: an RFC 3339 string
FormatTime(n) == "T" \o ToString(n)

Instants == 0..(MaxReqs + 1)

\* time.Time.UnmarshalJSON: the instant a string denotes, -1 when it is not
\* a timestamp
ParseTime(s) ==
    IF \E n \in Instants : FormatTime(n) = s
    THEN CHOOSE n \in Instants : FormatTime(n) = s
    ELSE -1

\* json.Marshal for a struct whose Email field is tagged "mail"
Marshal_RenamesEmail(u) ==
    Doc(<< Member("id", Num(u.ID)),
           Member("created_at", Str(FormatTime(u.CreatedAt))),
           Member("updated_at", Str(FormatTime(u.UpdatedAt))),
           Member("deleted_at", IF u.DeletedAt = 0 THEN Null
                                ELSE Str(FormatTime(u.DeletedAt))),
           Member("name", Str(u.Name)),
           Member("mail", Str(u.Email)),
           Member("age", Num(u.Age)),
           Member("status", Num(u.Status)) >>)

\* time.Time.MarshalJSON fails for an instant RFC 3339 cannot write (a year
\* beyond 9999); Instants are the ones it can
Encodable(u) ==
    /\ u.CreatedAt \in Instants
    /\ u.UpdatedAt \in Instants
    /\ u.DeletedAt \in Instants

\* json.Marshal(user) for *model.User: members in field order with the
\* json tags of the struct; when a field's MarshalJSON fails the result is
\* nil bytes and an error, and string(nil) is the empty string, which is
\* no JSON document
Marshal(u) ==
    IF ~Encodable(u) THEN BadSyntax
    ELSE
    Doc(<< Member("id", Num(u.ID)),
           Member("created_at", Str(FormatTime(u.CreatedAt))),
           Member("updated_at", Str(FormatTime(u.UpdatedAt))),
           Member("deleted_at", IF u.DeletedAt = 0 THEN Null
                                ELSE Str(FormatTime(u.DeletedAt))),
           Member("name", Str(u.Name)),
           Member("email", Str(u.Email)),
           Member("age", Num(u.Age)),
           Member("status", Num(u.Status)) >>)

\* Decoding one member into the struct: a JSON null leaves the field alone,
\* a value of the wrong JSON type is skipped and reported, an unknown key is
\* ignored.
DecodeMember(u, m) ==
    LET v == m.v
        ok(x) == [user |-> x, err |-> FALSE]
        bad(x) == [user |-> x, err |-> TRUE]
        time(field) ==
            IF v.t = "null" THEN ok(u)
            ELSE IF v.t = "str" /\ ParseTime(v.s) >= 0
                 THEN ok([u EXCEPT ![field] = ParseTime(v.s)])
                 ELSE bad([u EXCEPT ![field] = 0])
        deleted ==
            IF v.t = "null" THEN ok(u)
            ELSE IF v.t = "str" /\ ParseTime(v.s) >= 0
                 THEN ok([u EXCEPT !.DeletedAt = ParseTime(v.s)])
                 ELSE bad(u)
        number(field) ==
            IF v.t = "null" THEN ok(u)
            ELSE IF v.t = "num" THEN ok([u EXCEPT ![field] = v.n])
                 ELSE bad(u)
        string(field) ==
            IF v.t = "null" THEN ok(u)
            ELSE IF v.t = "str" THEN ok([u EXCEPT ![field] = v.s])
                 ELSE bad(u)
    IN  CASE m.k = "id" -> number("ID")
          [] m.k = "created_at" -> time("CreatedAt")
          [] m.k = "updated_at" -> time("UpdatedAt")
          [] m.k = "deleted_at" -> deleted
          [] m.k = "name" -> string("Name")
          [] m.k = "email" -> string("Email")
          [] m.k = "age" -> number("Age")
          [] m.k = "status" -> number("Status")
          [] OTHER -> ok(u)

RECURSIVE DecodeMembers(_, _)
DecodeMembers(u, ms) ==
    IF ms = <<>> THEN [user |-> u, err |-> FALSE]
    ELSE LET first == DecodeMember(u, Head(ms))
             rest == DecodeMembers(first.user, Tail(ms))
         IN  [user |-> rest.user, err |-> first.err \/ rest.err]

\* json.Unmarshal([]byte(jsonData), user): a syntax error is found before
\* anything is stored; a type error is reported after the rest of the
\* object has been decoded into the destination.
Unmarshal(data, u) ==
    IF ~data.valid THEN [user |-> u, err |-> TRUE]
    ELSE DecodeMembers(u, data.members)

\* -------------------------------------------------------------------- state
VARIABLES
    db,         \* table users: id -> row, ZeroUser where no row has that id
    cache,      \* Redis: key -> entry
    req,        \* per HTTP request: the handler's call into package logic
    task,       \* per request: the goroutine GetUserByID starts
    cancelled,  \* per request: its context is cancelled
    now,        \* logical clock of the backing store
    held,       \* id -> every row the table has held for that id so far
    tracing,    \* cfg.Tracing.Enabled: the tracer provider records spans
    inv,        \* per invocation of a function TraceServiceFunc produced
    spans       \* the spans the tracer provider has recorded, in start order

lvars == <<db, cache, req, task, cancelled, now, held>>
tvars == <<tracing, inv, spans>>
vars == <<db, cache, req, task, cancelled, now, held, tracing, inv, spans>>

\* ------------------------------------------------------------------ context
\* A context is the trace it belongs to and the request whose cancellation
\* it inherits (0: none).
Ctx(trace, cancel) == [trace |-> trace, cancel |-> cancel]

\* context.Background()
Background == Ctx(0, 0)

\* c.Request.Context() after TracingMiddleware: the server span of request r
\* and the cancellation of the connection / handler of r
RequestContext(r) == Ctx(r, r)

\* Cancelled for clients that never look at ctx.Done()
Cancelled_Never(ctx) == FALSE

\* ctx.Err() != nil
Cancelled(ctx) == ctx.cancel # 0 /\ cancelled[ctx.cancel]

\* ---------------------------------------------------------- database.Redis
\* An entry carries, besides its bytes and its time-to-live, the instant of
\* the store's clock at which it was written (0: not written by this
\* service); Redis does not keep that instant, the model does.
Entry(val, ttl) == [present |-> TRUE, val |-> val, ttl |-> ttl, at |-> now]
NilEntry == [present |-> FALSE, val |-> BadSyntax, ttl |-> 0, at |-> 0]

\* RedisClient.Get(ctx, key).Result()
RedisGet(ctx, key, down) ==
    IF Cancelled(ctx) THEN [err |-> "context canceled", val |-> BadSyntax]
    ELSE IF down THEN [err |-> "redis unavailable", val |-> BadSyntax]
    ELSE IF ~cache[key].present THEN [err |-> "redis.Nil", val |-> BadSyntax]
    ELSE [err |-> "nil", val |-> cache[key].val]

\* RedisClient.Set(ctx, key, value, ttl)
RedisSet(ctx, key, val, ttl, down) ==
    IF Cancelled(ctx) THEN [err |-> "context canceled", cache |-> cache]
    ELSE IF down THEN [err |-> "redis unavailable", cache |-> cache]
    ELSE [err |-> "nil", cache |-> [cache EXCEPT ![key] = Entry(val, ttl)]]

\* RedisDel answering nil without removing the key
RedisDel_KeepsKey(ctx, key, down) ==
    IF Cancelled(ctx) THEN [err |-> "context canceled", cache |-> cache]
    ELSE IF down THEN [err |-> "redis unavailable", cache |-> cache]
    ELSE [err |-> "nil", cache |-> cache]

\* RedisClient.Del(ctx, key); keys outside the modelled key space hold
\* nothing
RedisDel(ctx, key, down) ==
    IF Cancelled(ctx) THEN [err |-> "context canceled", cache |-> cache]
    ELSE IF down THEN [err |-> "redis unavailable", cache |-> cache]
    ELSE [err |-> "nil",
          cache |-> [k \in Keys |-> IF k = key THEN NilEntry ELSE cache[k]]]

\* ------------------------------------------------------------- database.DB
HasRow(id) == id \in Ids /\ db[id].ID = id
Live(id) == HasRow(id) /\ db[id].DeletedAt = 0

\* DB.WithContext(ctx).First(user, id):
\*   SELECT * FROM users WHERE id = <id> [AND id = <user.ID>]
\*   AND deleted_at IS NULL ORDER BY id LIMIT 1
\* gorm adds the destination's primary key as a condition when it is not
\* zero; every column of the row found is scanned into the destination.
DBFirst(ctx, dest, id, down) ==
    IF Cancelled(ctx) THEN [err |-> "context canceled", user |-> dest]
    ELSE IF down THEN [err |-> "db error", user |-> dest]
    ELSE IF Live(id) /\ (dest.ID = 0 \/ dest.ID = id)
         THEN [err |-> "nil", user |-> db[id]]
         ELSE [err |-> "record not found", user |-> dest]

\* The live rows with ids lo..MaxId, in primary-key order
RECURSIVE LiveRows(_)
LiveRows(lo) ==
    IF lo > MaxId THEN <<>>
    ELSE (IF Live(lo) THEN <<db[lo]>> ELSE <<>>) \o LiveRows(lo + 1)

\* DB.WithContext(ctx).Find(&users):
\*   SELECT * FROM users WHERE deleted_at IS NULL
DBFind(ctx, down) ==
    IF Cancelled(ctx) THEN [err |-> "context canceled", users |-> <<>>]
    ELSE IF down THEN [err |-> "db error", users |-> <<>>]
    ELSE [err |-> "nil", users |-> LiveRows(1)]

\* --------------------------------------------------------------- requests
Call(name, err) == [call |-> name, err |-> err]

\* A request that has not called into package logic yet. user is the
\* struct behind the *model.User of the call; ret, retNil and err are what
\* the call returned; fetched (the row First produced), liveAtReturn (the
\* context was not cancelled when the call returned), wroteAt (the instant
\* of the store's clock after the call's successful write) and log (the
\* store and cache calls made on the calling goroutine, in order) record its
\* history; users is the slice GetAllUsers returned; deadAtCall tells that
\* the context was already cancelled when the call was made.
IdleReq ==
    [op |-> "none", pc |-> "idle", id |-> 0, cacheKey |-> "",
     user |-> ZeroUser, fetched |-> ZeroUser, ret |-> ZeroUser,
     retNil |-> TRUE, err |-> "nil", liveAtReturn |-> FALSE, wroteAt |-> 0,
     users |-> <<>>, deadAtCall |-> FALSE, alone |-> TRUE, log |-> <<>>]

NoTask ==
    [state |-> "none", ctx |-> Background, jsonData |-> BadSyntax,
     err |-> "nil"]

\* ------------------------------------------------ logic.GetUserByID(ctx, id)
\* The context a step of the request passes to the store and the cache
ReqCtx(r) == RequestContext(r)

\* PopulateCtx with a context that carries nothing of the request
PopulateCtx_Background(ctx) == Background

\* The context the population goroutine passes to RedisClient.Set: the
\* closure captures the ctx parameter of GetUserByID
PopulateCtx(ctx) == ctx

\* The id a call works on: GetUserByID's id, UpdateUser's user.ID
OnId(q) ==
    IF q.op = "get" THEN q.id ELSE IF q.op = "update" THEN q.user.ID ELSE 0

\* A call that has not returned yet, or whose population goroutine still runs
InFlight(s) ==
    /\ req[s].op # "none"
    /\ \/ req[s].pc # "done"
       \/ task[s].state \in {"started", "marshalled"}

\* No other call on the id is in flight when request r starts one
Alone(r, id) ==
    \A s \in Reqs \ {r} : ~(InFlight(s) /\ OnId(req[s]) = id)

\* controller.GetUserByID binds id (required, so not 0) and calls
\* logic.GetUserByID(c.Request.Context(), req.ID); the function computes
\* the key and allocates the destination
GetUserByID_Call(r, id) ==
    /\ req[r].op = "none"
    /\ req' = [req EXCEPT ![r] =
                 [@ EXCEPT !.op = "get", !.pc = "redis_get", !.id = id,
                           !.deadAtCall = cancelled[r],
                           !.alone = Alone(r, id),
                           !.cacheKey = Sprintf(UserCacheKey, id),
                           !.user = ZeroUser]]
    /\ UNCHANGED <<db, cache, task, cancelled, now, held, tvars>>

\* AfterRedisGet with a cache error other than redis.Nil returned to the
\* caller
AfterRedisGet_ReturnsCacheError(q, got, dec) ==
    LET log == Append(q.log, Call("redis.get", got.err))
    IN  IF got.err = "nil"
        THEN IF ~dec.err
             THEN [q EXCEPT !.pc = "done", !.user = dec.user,
                            !.ret = dec.user, !.retNil = FALSE,
                            !.err = "nil",
                            !.log = Append(log, Call("json.unmarshal", "nil"))]
             ELSE [q EXCEPT !.pc = "db_first", !.user = dec.user,
                            !.log = Append(log,
                                           Call("json.unmarshal", "error"))]
        ELSE IF got.err # "redis.Nil"
             THEN [q EXCEPT !.pc = "done", !.retNil = TRUE, !.err = got.err,
                            !.log = log]
             ELSE [q EXCEPT !.pc = "db_first", !.log = log]

\* AfterRedisGet with a decodable hit not returned: the store is queried
\* all the same
AfterRedisGet_IgnoresHit(q, got, dec) ==
    LET log == Append(q.log, Call("redis.get", got.err))
    IN  IF got.err = "nil"
        THEN [q EXCEPT !.pc = "db_first",
                       !.user = IF dec.err THEN dec.user ELSE ZeroUser,
                       !.log = Append(log,
                                  Call("json.unmarshal",
                                       IF dec.err THEN "error" ELSE "nil"))]
        ELSE [q EXCEPT !.pc = "db_first", !.log = log]

\* if err == nil { if json.Unmarshal(...) == nil { return user, nil } }
\* else if err != redis.Nil { }: what the call does with the answer `got` of
\* the cache and the outcome `dec` of decoding it into user. Every answer
\* but a decodable hit falls through to the store.
AfterRedisGet(q, got, dec) ==
    LET log == Append(q.log, Call("redis.get", got.err))
    IN  IF got.err = "nil"
        THEN IF ~dec.err
             THEN [q EXCEPT !.pc = "done", !.user = dec.user,
                            !.ret = dec.user, !.retNil = FALSE,
                            !.err = "nil",
                            !.log = Append(log, Call("json.unmarshal", "nil"))]
             ELSE [q EXCEPT !.pc = "db_first", !.user = dec.user,
                            !.log = Append(log,
                                           Call("json.unmarshal", "error"))]
        ELSE [q EXCEPT !.pc = "db_first", !.log = log]

\* jsonData, err := RedisClient.Get(ctx, cacheKey).Result() and, on a hit,
\* json.Unmarshal([]byte(jsonData), user)
GetUserByID_RedisGet(r) ==
    /\ req[r].op = "get" /\ req[r].pc = "redis_get"
    /\ \E down \in BOOLEAN :
         LET got == RedisGet(ReqCtx(r), req[r].cacheKey, down)
             dec == Unmarshal(got.val, req[r].user)
         IN  req' = [req EXCEPT ![r] = AfterRedisGet(req[r], got, dec)]
    /\ UNCHANGED <<db, cache, task, cancelled, now, held, tvars>>

\* AfterDBFirst with not-found cached as well: the call goes on to the
\* population
AfterDBFirst_PopulatesNotFound(q, got) ==
    LET log == Append(q.log, Call("db.first", got.err))
    IN  IF got.err \notin {"nil", "record not found"}
        THEN [q EXCEPT !.pc = "done", !.retNil = TRUE, !.err = got.err,
                       !.log = log]
        ELSE [q EXCEPT !.pc = "go", !.user = got.user,
                       !.fetched = got.user, !.log = log]

\* if err != nil { return nil, err }: what the call does with the answer
\* `got` of the store
AfterDBFirst(q, got) ==
    LET log == Append(q.log, Call("db.first", got.err))
    IN  IF got.err # "nil"
        THEN [q EXCEPT !.pc = "done", !.retNil = TRUE, !.err = got.err,
                       !.log = log]
        ELSE [q EXCEPT !.pc = "go", !.user = got.user,
                       !.fetched = got.user, !.log = log]

\* GetUserByID_DBFirst stamping the row it read
GetUserByID_DBFirst_Touches(r) ==
    /\ req[r].op = "get" /\ req[r].pc = "db_first"
    /\ \E down \in BOOLEAN :
         LET got == DBFirst(ReqCtx(r), req[r].user, req[r].id, down)
         IN  /\ req' = [req EXCEPT ![r] = AfterDBFirst(req[r], got)]
             /\ db' = IF got.err = "nil"
                      THEN [db EXCEPT ![req[r].id].UpdatedAt = now + 1]
                      ELSE db
             /\ now' = IF got.err = "nil" THEN now + 1 ELSE now
    /\ UNCHANGED <<cache, task, cancelled, held, tvars>>

\* err = DB.WithContext(ctx).First(user, id).Error
GetUserByID_DBFirst(r) ==
    /\ req[r].op = "get" /\ req[r].pc = "db_first"
    /\ \E down \in BOOLEAN :
         LET got == DBFirst(ReqCtx(r), req[r].user, req[r].id, down)
         IN  req' = [req EXCEPT ![r] = AfterDBFirst(req[r], got)]
    /\ UNCHANGED <<db, cache, task, cancelled, now, held, tvars>>

\* go func() { ... }(): the goroutine is started and not waited for
GetUserByID_Go(r) ==
    /\ req[r].op = "get" /\ req[r].pc = "go"
    /\ task' = [task EXCEPT ![r] =
                 [state |-> "started", ctx |-> PopulateCtx(ReqCtx(r)),
                  jsonData |-> BadSyntax, err |-> "nil"]]
    /\ req' = [req EXCEPT ![r] =
                 [@ EXCEPT !.pc = "return",
                           !.log = Append(@, Call("go", "nil"))]]
    /\ UNCHANGED <<db, cache, cancelled, now, held, tvars>>

\* GetUserByID_Return that waits for the population goroutine
GetUserByID_Return_Awaits(r) ==
    /\ req[r].op = "get" /\ req[r].pc = "return"
    /\ task[r].state = "finished"
    /\ req' = [req EXCEPT ![r] =
                 [@ EXCEPT !.pc = "done", !.ret = req[r].user,
                           !.retNil = FALSE, !.err = "nil",
                           !.liveAtReturn = ~Cancelled(ReqCtx(r))]]
    /\ UNCHANGED <<db, cache, task, cancelled, now, held, tvars>>

\* return user, nil
GetUserByID_Return(r) ==
    /\ req[r].op = "get" /\ req[r].pc = "return"
    /\ req' = [req EXCEPT ![r] =
                 [@ EXCEPT !.pc = "done", !.ret = req[r].user, !.retNil = FALSE,
                           !.err = "nil",
                           !.liveAtReturn = ~Cancelled(ReqCtx(r))]]
    /\ UNCHANGED <<db, cache, task, cancelled, now, held, tvars>>

\* Populate_Marshal with the goroutine blanking the email of the struct it
\* shares with the caller before encoding it
Populate_Marshal_Scrubs(r) ==
    /\ task[r].state = "started"
    /\ task' = [task EXCEPT ![r] =
                 [@ EXCEPT !.state = "marshalled",
                           !.jsonData =
                               Marshal([req[r].user EXCEPT !.Email = ""])]]
    /\ req' = [req EXCEPT ![r] = [@ EXCEPT !.user = [@ EXCEPT !.Email = ""]]]
    /\ UNCHANGED <<db, cache, cancelled, now, held, tvars>>

\* goroutine: jsonData, _ := json.Marshal(user)
Populate_Marshal(r) ==
    /\ task[r].state = "started"
    /\ task' = [task EXCEPT ![r] =
                 [@ EXCEPT !.state = "marshalled",
                           !.jsonData = Marshal(req[r].user)]]
    /\ UNCHANGED <<db, cache, req, cancelled, now, held, tvars>>

\* Populate_Set storing the entry without an expiry
Populate_Set_NoExpiry(r) ==
    /\ task[r].state = "marshalled"
    /\ \E down \in BOOLEAN :
         LET set == RedisSet(task[r].ctx, req[r].cacheKey, task[r].jsonData,
                             0, down)
         IN  /\ cache' = set.cache
             /\ task' = [task EXCEPT ![r] =
                           [@ EXCEPT !.state = "finished", !.err = set.err]]
    /\ UNCHANGED <<db, req, cancelled, now, held, tvars>>

\* Populate_Set that stores only while the store still holds the row the
\* task marshalled
Populate_Set_Fenced(r) ==
    /\ task[r].state = "marshalled"
    /\ \E down \in BOOLEAN :
         LET set == RedisSet(task[r].ctx, req[r].cacheKey, task[r].jsonData,
                             UserCacheTTL, down)
             same == db[req[r].id] = req[r].user
         IN  /\ cache' = IF same THEN set.cache ELSE cache
             /\ task' = [task EXCEPT ![r] =
                           [@ EXCEPT !.state = "finished",
                                     !.err = IF same THEN set.err
                                             ELSE "stale"]]
    /\ UNCHANGED <<db, req, cancelled, now, held, tvars>>

\* goroutine: RedisClient.Set(ctx, cacheKey, string(jsonData), UserCacheTTL)
Populate_Set(r) ==
    /\ task[r].state = "marshalled"
    /\ \E down \in BOOLEAN :
         LET set == RedisSet(task[r].ctx, req[r].cacheKey, task[r].jsonData,
                             UserCacheTTL, down)
         IN  /\ cache' = set.cache
             /\ task' = [task EXCEPT ![r] =
                           [@ EXCEPT !.state = "finished", !.err = set.err]]
    /\ UNCHANGED <<db, req, cancelled, now, held, tvars>>

\* ----------------------------------------------------- logic.GetAllUsers(ctx)
\* A caller of GetUserByID writing a field of the *model.User it was handed.
\* The pointer returned (return user, nil) is the one the goroutine's closure
\* captured, so the write lands in the struct json.Marshal(user) reads; the
\* two are not synchronised, and Marshal sees the struct before or after the
\* write as the steps interleave.
Caller_Write(r, name) ==
    /\ req[r].op = "get" /\ req[r].pc = "done"
    /\ ~req[r].retNil /\ req[r].err = "nil"
    /\ req[r].ret.Name # name
    /\ req' = [req EXCEPT ![r] =
                 [@ EXCEPT !.ret = [@ EXCEPT !.Name = name],
                           !.user = [req[r].ret EXCEPT !.Name = name]]]
    /\ UNCHANGED <<db, cache, task, cancelled, now, held, tvars>>

\* The same caller writing the CreatedAt of the struct it shares with the
\* goroutine
Caller_WriteTime(r, t) ==
    /\ req[r].op = "get" /\ req[r].pc = "done"
    /\ ~req[r].retNil /\ req[r].err = "nil"
    /\ req[r].ret.CreatedAt # t
    /\ req' = [req EXCEPT ![r] =
                 [@ EXCEPT !.ret = [@ EXCEPT !.CreatedAt = t],
                           !.user = [req[r].ret EXCEPT !.CreatedAt = t]]]
    /\ UNCHANGED <<db, cache, task, cancelled, now, held, tvars>>

\* func GetAllUsers(ctx) ([]model.User, error): var users []model.User
GetAllUsers_Call(r) ==
    /\ req[r].op = "none"
    /\ req' = [req EXCEPT ![r] = [@ EXCEPT !.op = "list", !.pc = "db_find",
                                         !.deadAtCall = cancelled[r]]]
    /\ UNCHANGED <<db, cache, task, cancelled, now, held, tvars>>

\* err := DB.WithContext(ctx).Find(&users).Error; return nil, err on error,
\* users, nil otherwise
GetAllUsers_Find(r) ==
    /\ req[r].op = "list" /\ req[r].pc = "db_find"
    /\ \E down \in BOOLEAN :
         LET got == DBFind(ReqCtx(r), down)
         IN  req' = [req EXCEPT ![r] =
                       [@ EXCEPT !.pc = "done", !.err = got.err,
                                 !.users = got.users,
                                 !.log = Append(@, Call("db.find", got.err))]]
    /\ UNCHANGED <<db, cache, task, cancelled, now, held, tvars>>

\* ------------------------------------------------------------ store writes
\* AUTO_INCREMENT of users.id
NextID ==
    IF \E i \in Ids : HasRow(i)
    THEN 1 + CHOOSE i \in Ids : HasRow(i) /\ \A j \in Ids : HasRow(j) => j <= i
    ELSE 1

\* UNIQUE KEY idx_users_email: some row other than `except` has the email
EmailTaken(email, except) ==
    \E i \in Ids : i # except /\ HasRow(i) /\ db[i].Email = email

\* DB.WithContext(ctx).Where("email = ?", email).First(&existingUser)
DBFirstByEmail(ctx, email, down) ==
    IF Cancelled(ctx) THEN "context canceled"
    ELSE IF down THEN "db error"
    ELSE IF \E i \in Ids : Live(i) /\ db[i].Email = email THEN "nil"
    ELSE "record not found"

\* DBCreate on a users table without the unique index on email
DBCreate_NoUniqueIndex(ctx, user, down) ==
    LET row == [user EXCEPT !.ID = NextID, !.CreatedAt = now + 1,
                            !.UpdatedAt = now + 1,
                            !.Status = IF @ = 0 THEN 1 ELSE @]
    IN  IF Cancelled(ctx)
        THEN [err |-> "context canceled", user |-> user, db |-> db]
        ELSE IF down THEN [err |-> "db error", user |-> user, db |-> db]
        ELSE [err |-> "nil", user |-> row,
              db |-> [db EXCEPT ![NextID] = row]]

\* DB.WithContext(ctx).Create(user): the row is inserted with the next id,
\* created_at / updated_at of the insertion and the column default for a
\* zero status; the struct receives the values written
DBCreate(ctx, user, down) ==
    LET row == [user EXCEPT !.ID = NextID, !.CreatedAt = now + 1,
                            !.UpdatedAt = now + 1,
                            !.Status = IF @ = 0 THEN 1 ELSE @]
    IN  IF Cancelled(ctx)
        THEN [err |-> "context canceled", user |-> user, db |-> db]
        ELSE IF down THEN [err |-> "db error", user |-> user, db |-> db]
        ELSE IF EmailTaken(user.Email, 0)
             THEN [err |-> "duplicate entry", user |-> user, db |-> db]
             ELSE [err |-> "nil", user |-> row,
                   db |-> [db EXCEPT ![NextID] = row]]

\* DBUpdates as Updates(user) does without the Select: zero-valued fields
\* of the struct are left out of the UPDATE
DBUpdates_SkipsZero(ctx, user, down) ==
    IF Cancelled(ctx) THEN [err |-> "context canceled", db |-> db]
    ELSE IF down THEN [err |-> "db error", db |-> db]
    ELSE IF ~Live(user.ID) THEN [err |-> "nil", db |-> db]
    ELSE IF EmailTaken(user.Email, user.ID)
         THEN [err |-> "duplicate entry", db |-> db]
         ELSE [err |-> "nil",
               db |-> [db EXCEPT ![user.ID] =
                         [@ EXCEPT !.Name = IF user.Name = "" THEN @
                                             ELSE user.Name,
                                   !.Email = IF user.Email = "" THEN @
                                              ELSE user.Email,
                                   !.Age = IF user.Age = 0 THEN @
                                            ELSE user.Age,
                                   !.Status = IF user.Status = 0 THEN @
                                               ELSE user.Status,
                                   !.UpdatedAt = now + 1]]]

\* DB.WithContext(ctx).Model(&model.User{}).Select("name", "email", "age",
\*   "status", "updated_at").Where("id = ?", user.ID).Updates(user):
\*   UPDATE users SET name, email, age, status, updated_at
\*   WHERE id = <user.ID> AND deleted_at IS NULL
\* A statement that matches no row is not an error.
DBUpdates(ctx, user, down) ==
    IF Cancelled(ctx) THEN [err |-> "context canceled", db |-> db]
    ELSE IF down THEN [err |-> "db error", db |-> db]
    ELSE IF ~Live(user.ID) THEN [err |-> "nil", db |-> db]
    ELSE IF EmailTaken(user.Email, user.ID)
         THEN [err |-> "duplicate entry", db |-> db]
         ELSE [err |-> "nil",
               db |-> [db EXCEPT ![user.ID] =
                         [@ EXCEPT !.Name = user.Name, !.Email = user.Email,
                                   !.Age = user.Age, !.Status = user.Status,
                                   !.UpdatedAt = now + 1]]]

\* ------------------------------------------------ logic.CreateUser(ctx, user)
\* CreateUser_Call validating the name alone, so that an empty email reaches
\* the store
CreateUser_Call_ChecksNameOnly(r, u) ==
    /\ req[r].op = "none"
    /\ IF u.Name = ""
       THEN req' = [req EXCEPT ![r] =
                      [@ EXCEPT !.op = "create", !.pc = "done", !.user = u,
                                !.deadAtCall = cancelled[r],
                                !.err = "validation"]]
       ELSE req' = [req EXCEPT ![r] =
                      [@ EXCEPT !.op = "create", !.pc = "db_check",
                                !.deadAtCall = cancelled[r], !.user = u]]
    /\ UNCHANGED <<db, cache, task, cancelled, now, held, tvars>>

\* controller.CreateUser builds the user without an id; the function
\* rejects an empty name or email before touching the store
CreateUser_Call(r, u) ==
    /\ req[r].op = "none"
    /\ IF u.Name = "" \/ u.Email = ""
       THEN req' = [req EXCEPT ![r] =
                      [@ EXCEPT !.op = "create", !.pc = "done", !.user = u,
                                !.deadAtCall = cancelled[r],
                                !.err = "validation"]]
       ELSE req' = [req EXCEPT ![r] =
                      [@ EXCEPT !.op = "create", !.pc = "db_check",
                                !.deadAtCall = cancelled[r], !.user = u]]
    /\ UNCHANGED <<db, cache, task, cancelled, now, held, tvars>>

\* the email lookup: only err == nil stops the insertion
CreateUser_Check(r) ==
    /\ req[r].op = "create" /\ req[r].pc = "db_check"
    /\ \E down \in BOOLEAN :
         LET err == DBFirstByEmail(ReqCtx(r), req[r].user.Email, down)
             log == Append(req[r].log, Call("db.first", err))
         IN  IF err = "nil"
             THEN req' = [req EXCEPT ![r] =
                            [@ EXCEPT !.pc = "done", !.err = "email exists",
                                      !.log = log]]
             ELSE req' = [req EXCEPT ![r] =
                            [@ EXCEPT !.pc = "db_create", !.log = log]]
    /\ UNCHANGED <<db, cache, task, cancelled, now, held, tvars>>

\* err = DB.WithContext(ctx).Create(user).Error; return err on error
CreateUser_Create(r) ==
    /\ req[r].op = "create" /\ req[r].pc = "db_create"
    /\ NextID <= MaxId
    /\ \E down \in BOOLEAN :
         LET res == DBCreate(ReqCtx(r), req[r].user, down)
             log == Append(req[r].log, Call("db.create", res.err))
         IN  /\ db' = res.db
             /\ now' = IF res.db # db THEN now + 1 ELSE now
             /\ IF res.err # "nil"
                THEN req' = [req EXCEPT ![r] =
                               [@ EXCEPT !.pc = "done", !.err = res.err,
                                         !.log = log]]
                ELSE req' = [req EXCEPT ![r] =
                               [@ EXCEPT !.pc = "redis_del",
                                         !.user = res.user,
                                         !.wroteAt = now', !.log = log]]
             /\ held' = [i \in Ids |-> held[i] \cup
                          (IF res.db[i].ID = i THEN {res.db[i]} ELSE {})]
    /\ UNCHANGED <<cache, task, cancelled, tvars>>

\* CreateUser_Del clearing every user key instead of the new user's
CreateUser_Del_FlushesAll(r) ==
    /\ req[r].op = "create" /\ req[r].pc = "redis_del"
    /\ \E down \in BOOLEAN :
         LET key == Sprintf(UserCacheKey, req[r].user.ID)
             del == RedisDel(ReqCtx(r), key, down)
         IN  /\ cache' = IF del.err = "nil" THEN [k \in Keys |-> NilEntry]
                         ELSE cache
             /\ req' = [req EXCEPT ![r] =
                          [@ EXCEPT !.pc = "return", !.cacheKey = key,
                                    !.log = Append(@,
                                        Call("redis.del", del.err))]]
    /\ UNCHANGED <<db, task, cancelled, now, held, tvars>>

\* cacheKey := fmt.Sprintf(UserCacheKey, user.ID); RedisClient.Del(ctx,
\* cacheKey), its result dropped
CreateUser_Del(r) ==
    /\ req[r].op = "create" /\ req[r].pc = "redis_del"
    /\ \E down \in BOOLEAN :
         LET key == Sprintf(UserCacheKey, req[r].user.ID)
             del == RedisDel(ReqCtx(r), key, down)
         IN  /\ cache' = del.cache
             /\ req' = [req EXCEPT ![r] =
                          [@ EXCEPT !.pc = "return", !.cacheKey = key,
                                    !.log = Append(@,
                                        Call("redis.del", del.err))]]
    /\ UNCHANGED <<db, task, cancelled, now, held, tvars>>

\* return nil
CreateUser_Return(r) ==
    /\ req[r].op = "create" /\ req[r].pc = "return"
    /\ req' = [req EXCEPT ![r] = [@ EXCEPT !.pc = "done", !.err = "nil"]]
    /\ UNCHANGED <<db, cache, task, cancelled, now, held, tvars>>

\* ------------------------------------------------ logic.UpdateUser(ctx, user)
\* the function rejects id 0 before touching the store
UpdateUser_Call(r, u) ==
    /\ req[r].op = "none"
    /\ IF u.ID = 0
       THEN req' = [req EXCEPT ![r] =
                      [@ EXCEPT !.op = "update", !.pc = "done", !.user = u,
                                !.deadAtCall = cancelled[r],
                                !.alone = Alone(r, u.ID),
                                !.err = "validation"]]
       ELSE req' = [req EXCEPT ![r] =
                      [@ EXCEPT !.op = "update", !.pc = "db_update",
                                !.deadAtCall = cancelled[r],
                                !.alone = Alone(r, u.ID), !.user = u]]
    /\ UNCHANGED <<db, cache, task, cancelled, now, held, tvars>>

\* UpdateUser_Updates going on to the cache delete whatever Updates answered
UpdateUser_Updates_IgnoresError(r) ==
    /\ req[r].op = "update" /\ req[r].pc = "db_update"
    /\ \E down \in BOOLEAN :
         LET res == DBUpdates(ReqCtx(r), req[r].user, down)
             log == Append(req[r].log, Call("db.update", res.err))
         IN  /\ db' = res.db
             /\ now' = IF res.db # db THEN now + 1 ELSE now
             /\ req' = [req EXCEPT ![r] =
                          [@ EXCEPT !.pc = "redis_del",
                                    !.wroteAt = IF res.err = "nil" THEN now'
                                                ELSE @,
                                    !.log = log]]
             /\ held' = [i \in Ids |-> held[i] \cup
                          (IF res.db[i].ID = i THEN {res.db[i]} ELSE {})]
    /\ UNCHANGED <<cache, task, cancelled, tvars>>

\* err := DB...Updates(user).Error; return err on error
UpdateUser_Updates(r) ==
    /\ req[r].op = "update" /\ req[r].pc = "db_update"
    /\ \E down \in BOOLEAN :
         LET res == DBUpdates(ReqCtx(r), req[r].user, down)
             log == Append(req[r].log, Call("db.update", res.err))
         IN  /\ db' = res.db
             /\ now' = IF res.db # db THEN now + 1 ELSE now
             /\ IF res.err # "nil"
                THEN req' = [req EXCEPT ![r] =
                               [@ EXCEPT !.pc = "done", !.err = res.err,
                                         !.log = log]]
                ELSE req' = [req EXCEPT ![r] =
                               [@ EXCEPT !.pc = "redis_del",
                                         !.wroteAt = now', !.log = log]]
             /\ held' = [i \in Ids |-> held[i] \cup
                          (IF res.db[i].ID = i THEN {res.db[i]} ELSE {})]
    /\ UNCHANGED <<cache, task, cancelled, tvars>>

\* UpdateUser_Del writing the updated row through to the cache instead of
\* deleting the key
UpdateUser_Del_WritesThrough(r) ==
    /\ req[r].op = "update" /\ req[r].pc = "redis_del"
    /\ \E down \in BOOLEAN :
         LET key == Sprintf(UserCacheKey, req[r].user.ID)
             set == RedisSet(ReqCtx(r), key, Marshal(req[r].user),
                             UserCacheTTL, down)
         IN  /\ cache' = IF key \in Keys THEN set.cache ELSE cache
             /\ req' = [req EXCEPT ![r] =
                          [@ EXCEPT !.pc = "return", !.cacheKey = key,
                                    !.log = Append(@,
                                        Call("redis.del", set.err))]]
    /\ UNCHANGED <<db, task, cancelled, now, held, tvars>>

\* UpdateUser_Del with the error of the Delete returned to the caller
UpdateUser_Del_FailsWrite(r) ==
    /\ req[r].op = "update" /\ req[r].pc = "redis_del"
    /\ \E down \in BOOLEAN :
         LET key == Sprintf(UserCacheKey, req[r].user.ID)
             del == RedisDel(ReqCtx(r), key, down)
         IN  /\ cache' = del.cache
             /\ req' = [req EXCEPT ![r] =
                          [@ EXCEPT !.pc = IF del.err = "nil" THEN "return"
                                           ELSE "done",
                                    !.err = del.err, !.cacheKey = key,
                                    !.log = Append(@,
                                        Call("redis.del", del.err))]]
    /\ UNCHANGED <<db, task, cancelled, now, held, tvars>>

\* UpdateUser_Del with the delete left to a goroutine nobody waits for
UpdateUser_Del_Deferred(r) ==
    /\ req[r].op = "update" /\ req[r].pc = "redis_del"
    /\ req' = [req EXCEPT ![r] =
                 [@ EXCEPT !.pc = "return",
                           !.cacheKey = Sprintf(UserCacheKey, req[r].user.ID),
                           !.log = Append(@, Call("go", "nil"))]]
    /\ UNCHANGED <<db, cache, task, cancelled, now, held, tvars>>

\* cacheKey := fmt.Sprintf(UserCacheKey, user.ID); RedisClient.Del(ctx,
\* cacheKey), its result dropped
UpdateUser_Del(r) ==
    /\ req[r].op = "update" /\ req[r].pc = "redis_del"
    /\ \E down \in BOOLEAN :
         LET key == Sprintf(UserCacheKey, req[r].user.ID)
             del == RedisDel(ReqCtx(r), key, down)
         IN  /\ cache' = del.cache
             /\ req' = [req EXCEPT ![r] =
                          [@ EXCEPT !.pc = "return", !.cacheKey = key,
                                    !.log = Append(@,
                                        Call("redis.del", del.err))]]
    /\ UNCHANGED <<db, task, cancelled, now, held, tvars>>

\* return nil
UpdateUser_Return(r) ==
    /\ req[r].op = "update" /\ req[r].pc = "return"
    /\ req' = [req EXCEPT ![r] = [@ EXCEPT !.pc = "done", !.err = "nil"]]
    /\ UNCHANGED <<db, cache, task, cancelled, now, held, tvars>>

\* -------------------------------------------------------------- environment
\* net/http cancels the request context when the client goes away and when
\* the handler has returned; the client may be gone, or the deadline past,
\* before the handler calls into package logic
Context_Cancel(r) ==
    /\ ~cancelled[r]
    /\ cancelled' = [cancelled EXCEPT ![r] = TRUE]
    /\ UNCHANGED <<db, cache, req, task, now, held, tvars>>

\* Redis drops an entry whose time-to-live has run out
Cache_Expire(k) ==
    /\ cache[k].present /\ cache[k].ttl > 0
    /\ cache' = [cache EXCEPT ![k] = NilEntry]
    /\ UNCHANGED <<db, req, task, cancelled, now, held, tvars>>

\* Bytes under a user key that json.Unmarshal rejects for model.User: not
\* JSON at all, or JSON written for another layout of the struct (an id
\* and a field of the wrong type)
MismatchDoc(id) == Doc(<< Member("id", Num(id)), Member("name", Num(id)) >>)
Undecodable == {BadSyntax} \cup {MismatchDoc(i) : i \in Ids}

\* What the shared Redis instance holds when the service starts with table
\* tbl: under each key nothing, or the entry an earlier GetUserByID of the
\* service populated from the row, or, for up to MaxFaults keys, an entry
\* that was not written by this service
InitialCaches(tbl) ==
    LET foreign == {[NilEntry EXCEPT !.present = TRUE, !.val = v] :
                       v \in Undecodable}
        populated == {[present |-> TRUE, val |-> Marshal(tbl[i]),
                       ttl |-> UserCacheTTL, at |-> 1] :
                         i \in {j \in Ids : tbl[j].ID = j /\
                                            tbl[j].DeletedAt = 0}}
        OfKey(k, e) ==
            e.present /\ e.at > 0
            => k = Sprintf(UserCacheKey, Unmarshal(e.val, ZeroUser).user.ID)
    IN  {c \in [Keys -> {NilEntry} \cup foreign \cup populated] :
            /\ Cardinality({k \in Keys : c[k] \in foreign}) <= MaxFaults
            /\ \A k \in Keys : OfKey(k, c[k])}

\* ------------------------------------------------- pkg.TraceServiceFunc
Invs == 1..MaxInvs

\* attribute.KeyValue
KeyValue(k, v) == [k |-> k, v |-> v]

\* The closure TraceServiceFunc(operationName, fn, attrFunc) returns: it
\* keeps the three arguments
TraceServiceFunc(operationName, fn, attrFunc) ==
    [name |-> operationName, fn |-> fn, attrFunc |-> attrFunc]
NoFunc == TraceServiceFunc("", "", "")

\* The wrapped functions: the two NewServiceCWithTrace builds, and one built
\* with a nil attrFunc
Wrapped ==
    { TraceServiceFunc("ServiceC.Calculate", "Calculate", "CalculateAttrs"),
      TraceServiceFunc("ServiceC.Process", "Process", "ProcessAttrs"),
      TraceServiceFunc("ServiceA.MethodB", "MethodB", "nil") }

\* Arguments the callers pass: an int for Calculate, a string for Process
Args(fn) ==
    CASE fn = "Calculate" -> {Num(0), Num(5)}
      [] fn = "Process" -> {Str("hello world")}
      [] OTHER -> {Num(1)}

\* attrFunc(ctx, arg): the attribute functions of NewServiceCWithTrace
AttrFunc(attrFunc, arg) ==
    CASE attrFunc = "CalculateAttrs" ->
            << KeyValue("service.name", Str("ServiceC")),
               KeyValue("method", Str("Calculate")),
               KeyValue("input.number", arg) >>
      [] attrFunc = "ProcessAttrs" ->
            << KeyValue("service.name", Str("ServiceC")),
               KeyValue("method", Str("Process")),
               KeyValue("input.content", arg) >>
      [] OTHER -> <<>>

\* What a call of the inner function comes to: it returns (result, err) or
\* it panics
Returned(result, err) == [kind |-> "return", result |-> result, err |-> err]
Panicked == [kind |-> "panic", result |-> "", err |-> "nil"]
NoOutcome == [kind |-> "none", result |-> "", err |-> "nil"]

\* fn(ctx, arg): a result computed from the argument with a nil error, the
\* zero result with an error, or a panic
Outcomes(fn, arg) ==
    LET text == IF arg.t = "num" THEN ToString(arg.n) ELSE arg.s
    IN  { Returned(fn \o "(" \o text \o ")", "nil"),
          Returned("", fn \o " failed"),
          Panicked }

\* A span the provider records. parent is the span of the context Start
\* was given (0: none), by the invocation that started it, events the calls
\* made on it in order.
Span(name, parent, by) ==
    [name |-> name, parent |-> parent, by |-> by, attrs |-> <<>>,
     events |-> <<"Start">>, status |-> "Unset", description |-> ""]

\* Tracer.Start(ctx, operationName), ctx carrying span ctxSpan: with a
\* recording provider a new span, child of the span in ctx, and a context
\* carrying it; otherwise a span that records nothing (0) and the context's
\* own span
Tracer_Start(ctxSpan, operationName, by) ==
    IF tracing
    THEN [spans |-> Append(spans, Span(operationName, ctxSpan, by)),
          span |-> Len(spans) + 1, ctx |-> Len(spans) + 1]
    ELSE [spans |-> spans, span |-> 0, ctx |-> ctxSpan]

\* span.SetAttributes(attrs...)
Span_SetAttributes(sp, id, attrs) ==
    IF id = 0 THEN sp
    ELSE [sp EXCEPT ![id].attrs = @ \o attrs,
                    ![id].events = Append(@, "SetAttributes")]

\* span.RecordError(err)
Span_RecordError(sp, id, err) ==
    IF id = 0 THEN sp
    ELSE [sp EXCEPT ![id].events = Append(@, "RecordError:" \o err)]

\* span.SetStatus(codes.Error, err.Error())
Span_SetStatus(sp, id, code, description) ==
    IF id = 0 THEN sp
    ELSE [sp EXCEPT ![id].status = code, ![id].description = description,
                    ![id].events = Append(@, "SetStatus")]

\* span.End()
Span_End(sp, id) ==
    IF id = 0 THEN sp
    ELSE [sp EXCEPT ![id].events = Append(@, "End")]

\* An invocation slot not in use. w is the closure invoked and arg its
\* argument; parent the invocation whose inner function made the call (0:
\* a handler); ctxIn the span of the context passed in, ctx that of the
\* context Start derived, span the span Start returned; calls the calls the
\* closure has made, in order; fnCtx and fnArg what it passed to fn; out
\* what fn came to and ret what the closure came to.
IdleInv ==
    [pc |-> "idle", w |-> NoFunc, arg |-> Null, parent |-> 0, ctxIn |-> 0,
     ctx |-> 0, span |-> 0, calls |-> <<>>, fnCtx |-> 0, fnArg |-> Null,
     out |-> NoOutcome, ret |-> NoOutcome]

\* invocation slots are taken in order
FreeInv(i) == inv[i].pc = "idle" /\ \A j \in 1..(i - 1) : inv[j].pc # "idle"

\* a handler calls the closure: tracedFunc(ctx, arg)
Wrapped_Call(i, w, arg) ==
    /\ FreeInv(i)
    /\ inv' = [inv EXCEPT ![i] =
                 [@ EXCEPT !.pc = "start", !.w = w, !.arg = arg]]
    /\ UNCHANGED <<lvars, tracing, spans>>

\* ctx, span := Tracer.Start(ctx, operationName); defer span.End()
Wrapped_Start(i) ==
    /\ inv[i].pc = "start"
    /\ LET st == Tracer_Start(inv[i].ctxIn, inv[i].w.name, i)
       IN  /\ spans' = st.spans
           /\ inv' = [inv EXCEPT ![i] =
                        [@ EXCEPT !.pc = "attrs", !.span = st.span,
                                  !.ctx = st.ctx,
                                  !.calls = Append(@, "Start")]]
    /\ UNCHANGED <<lvars, tracing>>

\* Wrapped_Attrs leaving the attribute function for later
Wrapped_Attrs_Skips(i) ==
    /\ inv[i].pc = "attrs"
    /\ inv' = [inv EXCEPT ![i] = [@ EXCEPT !.pc = "fn"]]
    /\ UNCHANGED <<lvars, tracing, spans>>

\* if attrFunc != nil { if attrs := attrFunc(ctx, arg); len(attrs) > 0 {
\* span.SetAttributes(attrs...) } }
Wrapped_Attrs(i) ==
    /\ inv[i].pc = "attrs"
    /\ LET attrs == AttrFunc(inv[i].w.attrFunc, inv[i].arg)
       IN  IF inv[i].w.attrFunc = "nil"
           THEN /\ inv' = [inv EXCEPT ![i] = [@ EXCEPT !.pc = "fn"]]
                /\ spans' = spans
           ELSE IF Len(attrs) > 0
           THEN /\ inv' = [inv EXCEPT ![i] =
                             [@ EXCEPT !.pc = "fn",
                                       !.calls = @ \o <<"attrFunc",
                                                        "SetAttributes">>]]
                /\ spans' = Span_SetAttributes(spans, inv[i].span, attrs)
           ELSE /\ inv' = [inv EXCEPT ![i] =
                             [@ EXCEPT !.pc = "fn",
                                       !.calls = Append(@, "attrFunc")]]
                /\ spans' = spans
    /\ UNCHANGED <<lvars, tracing>>

\* Wrapped_Fn passing the caller's context instead of the one Start derived
Wrapped_Fn_CallerCtx(i) ==
    /\ inv[i].pc = "fn"
    /\ inv' = [inv EXCEPT ![i] =
                 [@ EXCEPT !.pc = "running", !.fnCtx = inv[i].ctxIn,
                           !.fnArg = inv[i].arg,
                           !.calls = Append(@, "fn")]]
    /\ UNCHANGED <<lvars, tracing, spans>>

\* result, err := fn(ctx, arg): the call
Wrapped_Fn(i) ==
    /\ inv[i].pc = "fn"
    /\ inv' = [inv EXCEPT ![i] =
                 [@ EXCEPT !.pc = "running", !.fnCtx = inv[i].ctx,
                           !.fnArg = inv[i].arg,
                           !.calls = Append(@, "fn")]]
    /\ UNCHANGED <<lvars, tracing, spans>>

\* the inner function of p calls a wrapped function with the context it
\* received
Fn_Nested(p, c, w, arg) ==
    /\ inv[p].pc = "running"
    /\ \A x \in Invs : inv[x].parent # p
    /\ FreeInv(c)
    /\ inv' = [inv EXCEPT ![c] =
                 [@ EXCEPT !.pc = "start", !.w = w, !.arg = arg,
                           !.parent = p, !.ctxIn = inv[p].fnCtx]]
    /\ UNCHANGED <<lvars, tracing, spans>>

\* the inner function returns or panics; a panic of a wrapped function it
\* called goes through it
Fn_Finish(i, o) ==
    /\ inv[i].pc = "running"
    /\ \A c \in Invs : inv[c].parent = i => inv[c].pc = "done"
    /\ (\E c \in Invs : inv[c].parent = i /\ inv[c].ret = Panicked)
       => o = Panicked
    /\ inv' = [inv EXCEPT ![i] = [@ EXCEPT !.pc = "after", !.out = o]]
    /\ UNCHANGED <<lvars, tracing, spans>>

\* Wrapped_After setting the status without recording the error
Wrapped_After_StatusOnly(i) ==
    /\ inv[i].pc = "after"
    /\ IF inv[i].out.kind = "return" /\ inv[i].out.err # "nil"
       THEN /\ spans' = Span_SetStatus(spans, inv[i].span, "Error",
                                       inv[i].out.err)
            /\ inv' = [inv EXCEPT ![i] =
                         [@ EXCEPT !.pc = "end",
                                   !.calls = Append(@, "SetStatus")]]
       ELSE /\ spans' = spans
            /\ inv' = [inv EXCEPT ![i] = [@ EXCEPT !.pc = "end"]]
    /\ UNCHANGED <<lvars, tracing>>

\* if err != nil { span.RecordError(err); span.SetStatus(codes.Error,
\* err.Error()) }; a panic unwinds past it
Wrapped_After(i) ==
    /\ inv[i].pc = "after"
    /\ IF inv[i].out.kind = "return" /\ inv[i].out.err # "nil"
       THEN /\ spans' = Span_SetStatus(
                          Span_RecordError(spans, inv[i].span,
                                           inv[i].out.err),
                          inv[i].span, "Error", inv[i].out.err)
            /\ inv' = [inv EXCEPT ![i] =
                         [@ EXCEPT !.pc = "end",
                                   !.calls = @ \o <<"RecordError",
                                                    "SetStatus">>]]
       ELSE /\ spans' = spans
            /\ inv' = [inv EXCEPT ![i] = [@ EXCEPT !.pc = "end"]]
    /\ UNCHANGED <<lvars, tracing>>

\* Wrapped_End returning the error of fn wrapped with the operation name
Wrapped_End_WrapsError(i) ==
    /\ inv[i].pc = "end"
    /\ spans' = Span_End(spans, inv[i].span)
    /\ inv' = [inv EXCEPT ![i] =
                 [@ EXCEPT !.pc = "done",
                           !.ret = IF inv[i].out.err = "nil" THEN inv[i].out
                                   ELSE [inv[i].out EXCEPT !.err =
                                            inv[i].w.name \o ": " \o @],
                           !.calls = Append(@, "End")]]
    /\ UNCHANGED <<lvars, tracing>>

\* Wrapped_End with span.End() called before the return instead of being
\* deferred: a panic passes it by
Wrapped_End_NotDeferred(i) ==
    /\ inv[i].pc = "end"
    /\ spans' = IF inv[i].out = Panicked THEN spans
                ELSE Span_End(spans, inv[i].span)
    /\ inv' = [inv EXCEPT ![i] =
                 [@ EXCEPT !.pc = "done", !.ret = inv[i].out,
                           !.calls = IF inv[i].out = Panicked THEN @
                                     ELSE Append(@, "End")]]
    /\ UNCHANGED <<lvars, tracing>>

\* return result, err, or the panic going on: the deferred span.End() runs
Wrapped_End(i) ==
    /\ inv[i].pc = "end"
    /\ spans' = Span_End(spans, inv[i].span)
    /\ inv' = [inv EXCEPT ![i] =
                 [@ EXCEPT !.pc = "done", !.ret = inv[i].out,
                           !.calls = Append(@, "End")]]
    /\ UNCHANGED <<lvars, tracing>>

\* ------------------------------------------------------------ specification
\* Request bodies the handlers bind
Bodies ==
    { User(0, 0, 0, 0, "B", "b@x.com", 0, 0),
      User(0, 0, 0, 0, "A", "a@x.com", 30, 1),
      User(0, 0, 0, 0, "", "b@x.com", 30, 1),
      User(0, 0, 0, 0, "B", "", 30, 1) }

UpdateBodies ==
    {[b EXCEPT !.ID = i] : b \in {c \in Bodies : c.Name # "" /\ c.Email # ""},
                           i \in 0..MaxId}

\* The users table when the service starts: user 1
InitialTables ==
    { [i \in Ids |-> IF i = 1 THEN User(1, 1, 1, 0, "A", "a@x.com", 30, 1)
                     ELSE ZeroUser] }

Init ==
    /\ db \in InitialTables
    /\ cache \in InitialCaches(db)
    /\ req = [r \in Reqs |-> IdleReq]
    /\ task = [r \in Reqs |-> NoTask]
    /\ cancelled = [r \in Reqs |-> FALSE]
    /\ now = 1
    /\ held = [i \in Ids |-> IF db[i].ID = i THEN {db[i]} ELSE {}]
    /\ tracing = FALSE
    /\ inv = [i \in Invs |-> IdleInv]
    /\ spans = <<>>

Next ==
    \/ \E r \in Reqs, id \in Ids : GetUserByID_Call(r, id)
    \/ \E r \in Reqs : GetUserByID_RedisGet(r)
    \/ \E r \in Reqs : GetUserByID_DBFirst(r)
    \/ \E r \in Reqs : GetUserByID_Go(r)
    \/ \E r \in Reqs : GetUserByID_Return(r)
    \/ \E r \in Reqs : Populate_Marshal(r)
    \/ \E r \in Reqs : Populate_Set(r)
    \/ \E r \in Reqs : GetAllUsers_Call(r)
    \/ \E r \in Reqs : GetAllUsers_Find(r)
    \/ \E r \in Reqs, u \in Bodies : CreateUser_Call(r, u)
    \/ \E r \in Reqs : CreateUser_Check(r)
    \/ \E r \in Reqs : CreateUser_Create(r)
    \/ \E r \in Reqs : CreateUser_Del(r)
    \/ \E r \in Reqs : CreateUser_Return(r)
    \/ \E r \in Reqs, u \in UpdateBodies : UpdateUser_Call(r, u)
    \/ \E r \in Reqs : UpdateUser_Updates(r)
    \/ \E r \in Reqs : UpdateUser_Del(r)
    \/ \E r \in Reqs : UpdateUser_Return(r)
    \/ \E r \in Reqs : Context_Cancel(r)
    \/ \E k \in Keys : Cache_Expire(k)

Spec == Init /\ [][Next]_vars

\* The wrapped functions alone, package logic at rest: the provider records
\* (cfg.Tracing.Enabled) or does not
\* GetUserByID under a caller that writes to the entity it was returned
CallerNames == {"Z"}

\* An instant time.Time holds and RFC 3339 cannot write
CallerTimes == {MaxReqs + 2}

CallerNext ==
    \/ \E r \in Reqs, id \in Ids : GetUserByID_Call(r, id)
    \/ \E r \in Reqs : GetUserByID_RedisGet(r)
    \/ \E r \in Reqs : GetUserByID_DBFirst(r)
    \/ \E r \in Reqs : GetUserByID_Go(r)
    \/ \E r \in Reqs : GetUserByID_Return(r)
    \/ \E r \in Reqs : Populate_Marshal(r)
    \/ \E r \in Reqs : Populate_Set(r)
    \/ \E r \in Reqs, name \in CallerNames : Caller_Write(r, name)
    \/ \E r \in Reqs, t \in CallerTimes : Caller_WriteTime(r, t)

CallerSpec == Init /\ [][CallerNext]_vars

\* CreateUser and UpdateUser racing on a users table that is empty or holds
\* user 1
WriteTables == InitialTables \cup {[i \in Ids |-> ZeroUser]}

WriteInit ==
    /\ db \in WriteTables
    /\ cache \in InitialCaches(db)
    /\ req = [r \in Reqs |-> IdleReq]
    /\ task = [r \in Reqs |-> NoTask]
    /\ cancelled = [r \in Reqs |-> FALSE]
    /\ now = 1
    /\ held = [i \in Ids |-> IF db[i].ID = i THEN {db[i]} ELSE {}]
    /\ tracing = FALSE
    /\ inv = [i \in Invs |-> IdleInv]
    /\ spans = <<>>

WriteNext ==
    \/ \E r \in Reqs, u \in Bodies : CreateUser_Call(r, u)
    \/ \E r \in Reqs : CreateUser_Check(r)
    \/ \E r \in Reqs : CreateUser_Create(r)
    \/ \E r \in Reqs : CreateUser_Del(r)
    \/ \E r \in Reqs : CreateUser_Return(r)
    \/ \E r \in Reqs, u \in UpdateBodies : UpdateUser_Call(r, u)
    \/ \E r \in Reqs : UpdateUser_Updates(r)
    \/ \E r \in Reqs : UpdateUser_Del(r)
    \/ \E r \in Reqs : UpdateUser_Return(r)
    \/ \E r \in Reqs : Context_Cancel(r)

WriteSpec == WriteInit /\ [][WriteNext]_vars

TraceInit ==
    /\ db \in InitialTables
    /\ cache = [k \in Keys |-> NilEntry]
    /\ req = [r \in Reqs |-> IdleReq]
    /\ task = [r \in Reqs |-> NoTask]
    /\ cancelled = [r \in Reqs |-> FALSE]
    /\ now = 1
    /\ held = [i \in Ids |-> IF db[i].ID = i THEN {db[i]} ELSE {}]
    /\ tracing \in BOOLEAN
    /\ inv = [i \in Invs |-> IdleInv]
    /\ spans = <<>>

TraceNext ==
    \/ \E i \in Invs, w \in Wrapped :
          \E arg \in Args(w.fn) : Wrapped_Call(i, w, arg)
    \/ \E i \in Invs : Wrapped_Start(i)
    \/ \E i \in Invs : Wrapped_Attrs(i)
    \/ \E i \in Invs : Wrapped_Fn(i)
    \/ \E p, c \in Invs, w \in Wrapped :
          \E arg \in Args(w.fn) : Fn_Nested(p, c, w, arg)
    \/ \E i \in Invs : \E o \in Outcomes(inv[i].w.fn, inv[i].fnArg) :
          Fn_Finish(i, o)
    \/ \E i \in Invs : Wrapped_After(i)
    \/ \E i \in Invs : Wrapped_End(i)

TraceSpec == TraceInit /\ [][TraceNext]_vars

\* ------------------------------------------------------------------ claims
\* q is the record of one request
LoggedIn(q, name, err) ==
    \E i \in DOMAIN q.log : q.log[i] = Call(name, err)
CalledIn(q, name) == \E i \in DOMAIN q.log : q.log[i].call = name
LastCall(q) == q.log[Len(q.log)]

Logged(r, name, err) == LoggedIn(req[r], name, err)
Called(r, name) == CalledIn(req[r], name)

\* the cache answered the Get of request r with bytes json.Unmarshal rejected
SawUndecodable(r) == Logged(r, "json.unmarshal", "error")

\* C1: when the cache held undecodable bytes under the key of id, the fetch
\* of GetUserByID(ctx, id) from a reachable store that holds a live row for
\* id produces exactly that row, whatever the failed decode left in the
\* destination, and the call then returns it with a nil error.
C1_UndecodableEntryFallsBack ==
    [][\A r \in Reqs :
          /\ (/\ req[r].op = "get" /\ req[r].pc = "db_first"
              /\ req'[r].pc # "db_first"
              /\ SawUndecodable(r)
              /\ Live(req[r].id)
              /\ LastCall(req'[r]).err \notin {"context canceled", "db error"})
             => (req'[r].pc = "go" /\ req'[r].user = db[req[r].id])
          /\ (/\ req[r].op = "get" /\ req[r].pc = "return"
              /\ req'[r].pc = "done"
              /\ SawUndecodable(r))
             => (/\ req'[r].ret = req[r].fetched /\ ~req'[r].retNil
                 /\ req'[r].err = "nil")]_vars

\* C2: a GetUserByID that returned an error made a backing-store fetch as
\* its last call, that fetch failed, and the error returned is the error of
\* that fetch; no outcome of the cache Get is returned as an error.
C2_OnlyStoreErrorsReturned ==
    \A r \in Reqs :
        (req[r].op = "get" /\ req[r].pc = "done" /\ req[r].err # "nil")
        => /\ req[r].log # <<>>
           /\ LastCall(req[r]) = Call("db.first", req[r].err)
           /\ req[r].err \in {"record not found", "db error",
                              "context canceled"}
           /\ req[r].retNil

\* C2 witness: the cache Get failed (cache unavailable) and the call returned
\* the store's not-found
C2_Witness ==
    \E r \in Reqs :
        /\ req[r].op = "get" /\ req[r].pc = "done"
        /\ Logged(r, "redis.get", "redis unavailable")
        /\ req[r].err = "record not found"

\* C3: once the fetch of a GetUserByID reported not-found, the call is over
\* with that failure and no entity, no population goroutine exists for it,
\* and no step of the call has written the cache.
C3_NotFoundNotPopulated ==
    /\ [](\A r \in Reqs :
            (req[r].op = "get" /\ Logged(r, "db.first", "record not found"))
            => /\ req[r].pc = "done"
               /\ req[r].err = "record not found"
               /\ req[r].retNil
               /\ ~Called(r, "go")
               /\ task[r].state = "none")
    /\ [][\A r \in Reqs :
            (req'[r].op = "get" /\ req'[r] # req[r]
             /\ ~CalledIn(req'[r], "go"))
            => cache' = cache]_vars

\* C3 witness: a lookup that found nothing decodable (here: undecodable
\* bytes), then not-found from the store
C3_Witness ==
    \E r \in Reqs :
        /\ req[r].op = "get" /\ req[r].pc = "done"
        /\ SawUndecodable(r)
        /\ ~Live(req[r].id)
        /\ req[r].err = "record not found"

\* C4: a GetUserByID whose cache Get returns a decodable entry returns what
\* the entry decodes to with a nil error, makes no store query, starts no
\* population goroutine and leaves the cache as it is.
C4_HitReturnsDecodedEntry ==
    [][\A r \in Reqs :
          LET dec == Unmarshal(cache[req[r].cacheKey].val, ZeroUser)
          IN  (/\ req[r].op = "get" /\ req[r].pc = "redis_get"
               /\ req'[r].pc # "redis_get"
               /\ LastCall(req'[r]).call = "json.unmarshal"
               /\ ~dec.err)
              => /\ req'[r].pc = "done"
                 /\ req'[r].ret = dec.user /\ ~req'[r].retNil
                 /\ req'[r].err = "nil"
                 /\ ~CalledIn(req'[r], "db.first")
                 /\ task'[r].state = "none"
                 /\ cache' = cache]_vars

\* C4 witness: a call that ended on a cache hit
C4_Witness ==
    \E r \in Reqs :
        /\ req[r].op = "get" /\ req[r].pc = "done"
        /\ Logged(r, "json.unmarshal", "nil")
        /\ req[r].ret.ID = req[r].id

\* the call of request r took the miss path and returned an entity
ReturnedFetched(r) ==
    /\ req[r].op = "get" /\ req[r].pc = "done"
    /\ Logged(r, "db.first", "nil")

\* some write to the entity of request r's id has succeeded in the store
WrittenBy(w, r) ==
    /\ req[w].op \in {"create", "update"}
    /\ req[w].user.ID = req[r].id
    /\ \/ Logged(w, "db.update", "nil")
       \/ Logged(w, "db.create", "nil")

\* C5: a GetUserByID that returned from the miss path returned the row its
\* own fetch produced, with a nil error; this stays so in every later state,
\* whatever the population goroutine and concurrent writers do.
C5_ReturnsOwnFetch ==
    \A r \in Reqs :
        ReturnedFetched(r)
        => /\ req[r].ret = req[r].fetched
           /\ req[r].fetched.ID = req[r].id
           /\ ~req[r].retNil
           /\ req[r].err = "nil"

\* C5 witness: the call has returned, its population failed, and a
\* concurrent UpdateUser of the same id has changed the row and deleted the
\* key
C5_Witness ==
    \E r, w \in Reqs :
        /\ ReturnedFetched(r)
        /\ task[r].state = "finished" /\ task[r].err # "nil"
        /\ req[w].op = "update" /\ req[w].pc = "done" /\ req[w].err = "nil"
        /\ Logged(w, "redis.del", "nil")
        /\ req[w].user.ID = req[r].id
        /\ db[req[r].id] # req[r].ret

\* C6: wherever GetUserByID stands at its return statement, the return is
\* enabled, in particular while the population goroutine has not finished.
C6_ReturnNeverWaits ==
    \A r \in Reqs :
        (req[r].op = "get" /\ req[r].pc = "return")
        => ENABLED GetUserByID_Return(r)

\* C6 witness: the call has returned and the Set of its population is still
\* pending
C6_Witness ==
    \E r \in Reqs :
        /\ ReturnedFetched(r)
        /\ task[r].state \in {"started", "marshalled"}

\* C7: a GetUserByID that missed an empty cache and returned the entity
\* under a context that was live, with no write to that id and a cache that
\* answers, has stored the serialized entity once its population is over:
\* the Set succeeded and what the cache holds under the key is that
\* encoding.
C7_PopulationReachesCache ==
    \A r \in Reqs :
        (/\ ReturnedFetched(r)
         /\ Logged(r, "redis.get", "redis.Nil")
         /\ req[r].liveAtReturn
         /\ task[r].state = "finished"
         /\ task[r].err # "redis unavailable"
         /\ \A w \in Reqs : ~WrittenBy(w, r))
        => /\ task[r].err = "nil"
           /\ cache[req[r].cacheKey].present
              => cache[req[r].cacheKey].val = Marshal(req[r].ret)

\* C8: a population goroutine whose GetUserByID returned under a live
\* context never has its Set refused because of a cancelled context.
C8_PopulationOutlivesRequest ==
    \A r \in Reqs :
        (ReturnedFetched(r) /\ req[r].liveAtReturn
         /\ task[r].state = "finished")
        => task[r].err # "context canceled"

\* C9: the context of the population goroutine of request r belongs to the
\* trace of the context GetUserByID was called with.
C9_PopulationKeepsTrace ==
    \A r \in Reqs :
        task[r].state # "none"
        => /\ task[r].ctx.trace = RequestContext(r).trace
           /\ task[r].ctx.trace # Background.trace

\* C9 witness: a population whose Set reached the cache
C9_Witness ==
    \E r \in Reqs :
        /\ task[r].state = "finished" /\ task[r].err = "nil"
        /\ cache[req[r].cacheKey].present

\* position of the first call `name` in the log of q, 0 when there is none
FirstCall(q, name) ==
    IF CalledIn(q, name)
    THEN CHOOSE i \in DOMAIN q.log :
            q.log[i].call = name /\ \A j \in 1..(i - 1) : q.log[j].call # name
    ELSE 0

\* C10: a CreateUser or UpdateUser that is about to return or has returned
\* success has made its store write, which succeeded, and after it a cache
\* Delete for the key of the written id, on the calling goroutine; a Delete
\* is never issued without a successful write before it, and no goroutine
\* is started.
C10_DeleteBeforeReturn ==
    \A r \in Reqs :
        LET q == req[r]
            write == IF q.op = "create" THEN "db.create" ELSE "db.update"
        IN  q.op \in {"create", "update"}
            => /\ (q.pc = "return" \/ (q.pc = "done" /\ q.err = "nil"))
                  => /\ LoggedIn(q, write, "nil")
                     /\ CalledIn(q, "redis.del")
                     /\ FirstCall(q, write) < FirstCall(q, "redis.del")
                     /\ q.cacheKey = Sprintf(UserCacheKey, q.user.ID)
               /\ CalledIn(q, "redis.del") => LoggedIn(q, write, "nil")
               /\ ~CalledIn(q, "go")
               /\ task[r].state = "none"

\* C10 witness: an UpdateUser and a CreateUser have both returned success
C10_Witness ==
    \E r, w \in Reqs :
        /\ req[r].op = "update" /\ req[r].pc = "done" /\ req[r].err = "nil"
        /\ Logged(r, "redis.del", "nil")
        /\ req[w].op = "create" /\ req[w].pc = "done" /\ req[w].err = "nil"
        /\ CalledIn(req[w], "redis.del")

\* the entry under the key of request r was written before the store write
\* of r (an entry not written by this service was there from the start)
CachedBeforeWrite(r) ==
    /\ req[r].cacheKey \in Keys
    /\ cache[req[r].cacheKey].present
    /\ cache[req[r].cacheKey].at < req[r].wroteAt

\* C11 as stated: when UpdateUser is about to return success, the key of
\* the updated id does not hold the entity a population task cached before
\* the update.
C11_CachedKeyAbsentAtReturn ==
    \A r \in Reqs :
        (req[r].op = "update" /\ req[r].pc = "return")
        => ~(CachedBeforeWrite(r) /\ cache[req[r].cacheKey].at > 0)

\* C11: when UpdateUser is about to return success and its cache Delete
\* answered without error, the key of the updated id holds no entry that
\* was cached before the update's store write: a Get finds nothing, or an
\* entry a population task stored after that write.
C11_DeleteRemovesCachedKey ==
    \A r \in Reqs :
        (req[r].op = "update" /\ req[r].pc = "return"
         /\ Logged(r, "redis.del", "nil"))
        => ~CachedBeforeWrite(r)

\* C11 witness: a population task had stored the key, UpdateUser's Delete
\* succeeded, and the key is empty as UpdateUser returns
C11_Witness ==
    \E r, g \in Reqs :
        /\ req[r].op = "update" /\ req[r].pc = "return"
        /\ Logged(r, "redis.del", "nil")
        /\ task[g].state = "finished" /\ task[g].err = "nil"
        /\ req[g].cacheKey = req[r].cacheKey
        /\ req[g].fetched # db[req[g].id]
        /\ ~cache[req[r].cacheKey].present

\* the store write of request r, a CreateUser or an UpdateUser, succeeded
WriteSucceeded(r) ==
    \/ req[r].op = "create" /\ Logged(r, "db.create", "nil")
    \/ req[r].op = "update" /\ Logged(r, "db.update", "nil")

\* C12: once the store write of CreateUser or UpdateUser has succeeded the
\* call can only go on to its cache Delete and to return nil, so it returns
\* success whatever the Delete answered; and neither the Delete nor the
\* return changes the store, which keeps what was written.
C12_DeleteFailureNeverFailsWrite ==
    /\ [](\A r \in Reqs :
            WriteSucceeded(r)
            => /\ req[r].pc \in {"redis_del", "return", "done"}
               /\ req[r].pc = "done" => req[r].err = "nil")
    /\ [][\A r \in Reqs :
            (WriteSucceeded(r) /\ req'[r] # req[r]) => db' = db]_vars

\* C12 witness: an UpdateUser and a CreateUser whose Delete failed have
\* returned success and the rows they wrote are in the store
C12_Witness ==
    \E r, w \in Reqs :
        /\ req[r].op = "update" /\ req[r].pc = "done" /\ req[r].err = "nil"
        /\ Logged(r, "redis.del", "redis unavailable")
        /\ db[req[r].user.ID].Name = req[r].user.Name
        /\ req[w].op = "create" /\ req[w].pc = "done" /\ req[w].err = "nil"
        /\ Logged(w, "redis.del", "context canceled")
        /\ db[req[w].user.ID] = req[w].user

\* the Get of request g is answered from the cache in this step
HitStep(g) ==
    /\ req[g].op = "get" /\ req[g].pc = "redis_get"
    /\ req'[g].pc = "done" /\ req'[g].err = "nil"
    /\ LoggedIn(req'[g], "json.unmarshal", "nil")

\* the cache Delete of UpdateUser request w for key k has succeeded
Invalidated(w, k) ==
    /\ req[w].op = "update" /\ req[w].cacheKey = k
    /\ Logged(w, "redis.del", "nil")

\* C13: a GetUserByID whose cache Get comes after the successful Delete of
\* an UpdateUser of the same id is never answered from an entry written to
\* the cache before that update's store write; if it is answered from the
\* cache, the entry was populated after the write, otherwise it goes to the
\* store.
C13_NoEntryFromBeforeUpdate ==
    [][\A g, w \in Reqs :
          (req[g].op = "get" /\ req[g].pc = "redis_get"
           /\ req'[g] # req[g] /\ Invalidated(w, req[g].cacheKey))
          => IF HitStep(g)
             THEN /\ cache[req[g].cacheKey].at >= req[w].wroteAt
                  /\ req'[g].ret = Unmarshal(cache[req[g].cacheKey].val,
                                             ZeroUser).user
             ELSE req'[g].pc = "db_first"]_vars

\* C13 witness: the entry populated earlier was deleted by an UpdateUser
\* that returned success, and a GetUserByID of the same id that started
\* afterwards returned the updated row
C13_Witness ==
    \E g, w \in Reqs :
        /\ req[w].op = "update" /\ req[w].pc = "done" /\ req[w].err = "nil"
        /\ Logged(w, "redis.del", "nil")
        /\ req[w].wroteAt > 1
        /\ req[g].op = "get" /\ req[g].pc = "done" /\ req[g].err = "nil"
        /\ req[g].cacheKey = req[w].cacheKey
        /\ Logged(g, "redis.get", "redis.Nil")
        /\ req[g].ret.UpdatedAt = req[w].wroteAt
        /\ req[g].ret.Name = req[w].user.Name

\* C14: nothing orders a population against an invalidation of the same
\* key: a population task that has marshalled its row can, while its
\* context is live, store exactly those bytes under the key whatever the
\* store holds by then and whatever Deletes have happened since the fetch,
\* and an UpdateUser that has written can always go on to its Delete
\* whatever population tasks are in flight.
C14_PopulationNotOrdered ==
    \A r \in Reqs :
        /\ (task[r].state = "marshalled" /\ ~Cancelled(task[r].ctx))
           => ENABLED (/\ Populate_Set(r)
                       /\ cache'[req[r].cacheKey] =
                            Entry(task[r].jsonData, UserCacheTTL))
        /\ (req[r].op = "update" /\ req[r].pc = "redis_del")
           => ENABLED UpdateUser_Del(r)

\* C14 witness: GetUserByID fetched v1, UpdateUser then wrote v2, deleted
\* the key and returned success, and the population task afterwards stored
\* v1: the cache holds v1, which a Get decodes, while the store holds v2
C14_Witness ==
    \E g, w \in Reqs :
        LET k == req[g].cacheKey
            v1 == req[g].fetched
        IN  /\ req[g].op = "get" /\ Logged(g, "db.first", "nil")
            /\ req[w].op = "update" /\ req[w].pc = "done"
            /\ req[w].err = "nil" /\ req[w].cacheKey = k
            /\ Logged(w, "redis.del", "nil")
            /\ v1.UpdatedAt < req[w].wroteAt
            /\ db[req[g].id].UpdatedAt = req[w].wroteAt
            /\ db[req[g].id] # v1
            /\ task[g].state = "finished" /\ task[g].err = "nil"
            /\ cache[k].present /\ cache[k].at >= req[w].wroteAt
            /\ Unmarshal(cache[k].val, ZeroUser) =
                 [user |-> v1, err |-> FALSE]

\* the entry under the key of id was written by this service and decodes to
\* something other than the row the store holds for id now
Stale(id) ==
    LET e == cache[Sprintf(UserCacheKey, id)]
    IN  /\ e.present /\ e.at > 0
        /\ Unmarshal(e.val, ZeroUser) # [user |-> db[id], err |-> FALSE]

\* C15: every entry this service wrote carries the standard TTL, which is
\* an expiry, so its expiry can remove it; a step that leaves an entry
\* under a key other than the one that was there is the Set of a population
\* task, which writes the value together with the standard TTL; and a
\* writer's successful Delete leaves no entry under its key.
C15_EntriesExpire ==
    /\ [](\A k \in Keys :
            (cache[k].present /\ cache[k].at > 0)
            => /\ cache[k].ttl = UserCacheTTL /\ cache[k].ttl > 0
               /\ ENABLED Cache_Expire(k))
    /\ [][\A k \in Keys :
            (cache'[k] # cache[k] /\ cache'[k].present)
            => \E r \in Reqs :
                  /\ task[r].state = "marshalled"
                  /\ task'[r].state = "finished"
                  /\ req[r].cacheKey = k
                  /\ cache'[k] = Entry(task[r].jsonData, UserCacheTTL)]_vars
    /\ [][\A w \in Reqs :
            (req[w].pc = "redis_del" /\ req'[w].pc = "return"
             /\ LastCall(req'[w]) = Call("redis.del", "nil"))
            => ~cache'[req'[w].cacheKey].present]_vars

\* C15 witness: a stale entry written by a population task sits in the
\* cache with the standard TTL, after an UpdateUser whose Delete failed
C15_Witness ==
    \E w \in Reqs :
        /\ req[w].op = "update" /\ req[w].pc = "done"
        /\ Logged(w, "redis.del", "redis unavailable")
        /\ Stale(req[w].user.ID)
        /\ cache[req[w].cacheKey].ttl = UserCacheTTL
        /\ \E g \in Reqs : /\ task[g].state = "finished"
                           /\ task[g].err = "nil"
                           /\ req[g].cacheKey = req[w].cacheKey

\* request r took the miss path: its First succeeded and no cached entry
\* was decoded for it
Missed(r) ==
    /\ req[r].op = "get"
    /\ Logged(r, "db.first", "nil")
    /\ ~Logged(r, "json.unmarshal", "nil")

\* C16: a step after which a key holds an entry it did not hold before is
\* the Set of the population task of a GetUserByID that missed; a step of
\* CreateUser or UpdateUser leaves every key as it was or empty; and the
\* step in which GetUserByID is answered from the cache leaves the cache
\* unchanged.
C16_OnlyPopulationStores ==
    [][/\ \A k \in Keys :
            (cache'[k] # cache[k] /\ cache'[k].present)
            => \E r \in Reqs :
                  /\ Missed(r) /\ req[r].cacheKey = k
                  /\ task[r].state = "marshalled"
                  /\ task'[r].state = "finished" /\ task'[r].err = "nil"
       /\ \A r \in Reqs :
            (req[r].op \in {"create", "update"} /\ req'[r] # req[r])
            => \A k \in Keys : cache'[k] = cache[k] \/ cache'[k] = NilEntry
       /\ \A g \in Reqs : HitStep(g) => cache' = cache]_vars

\* C16 witness: one GetUserByID missed and its task stored the entry, a
\* second one was answered from that entry, which is still there
C16_Witness ==
    \E g, h \in Reqs :
        /\ Missed(g) /\ task[g].state = "finished" /\ task[g].err = "nil"
        /\ req[h].op = "get" /\ req[h].pc = "done"
        /\ Logged(h, "json.unmarshal", "nil")
        /\ req[h].cacheKey = req[g].cacheKey
        /\ cache[req[g].cacheKey] =
             [Entry(task[g].jsonData, UserCacheTTL) EXCEPT
                 !.at = cache[req[g].cacheKey].at]
        /\ req[h].ret = req[g].fetched

\* request r is a read: a GetUserByID, with its population task, or a
\* GetAllUsers
IsRead(r) == req[r].op \in {"get", "list"} \/ req'[r].op \in {"get", "list"}

\* C17: no step of a GetUserByID, of its population task or of a
\* GetAllUsers changes the store: the table, with every row and every
\* field, and the store's clock are the same after the step as before.
C17_ReadsLeaveStore ==
    [][\A r \in Reqs :
          (IsRead(r) /\ (req'[r] # req[r] \/ task'[r] # task[r]))
          => db' = db /\ now' = now]_vars

\* C17 witness: a GetUserByID that fetched and populated and a GetAllUsers
\* that returned the rows have both run, and the table is the initial one
C17_Witness ==
    \E g, l \in Reqs :
        /\ req[g].op = "get" /\ req[g].pc = "done"
        /\ Logged(g, "db.first", "nil")
        /\ task[g].state = "finished" /\ task[g].err = "nil"
        /\ req[l].op = "list" /\ req[l].pc = "done" /\ req[l].err = "nil"
        /\ Len(req[l].users) = 1 /\ req[l].users[1] = db[1]
        /\ db \in InitialTables

\* C18: an entry that is present under the key of id and that json.Unmarshal
\* decodes is a row the table has held for that id, written to the table no
\* later than the entry was written to the cache.
C18_CacheHoldsOnlyStoreValues ==
    \A i \in Ids :
        LET e == cache[Sprintf(UserCacheKey, i)]
            dec == Unmarshal(e.val, ZeroUser)
        IN  (e.present /\ ~dec.err)
            => /\ dec.user \in held[i]
               /\ dec.user.UpdatedAt <= e.at

\* C18 witness: the cache holds for an id a row the table held earlier and
\* no longer holds
C18_Witness ==
    \E i \in Ids :
        LET e == cache[Sprintf(UserCacheKey, i)]
            dec == Unmarshal(e.val, ZeroUser)
        IN  /\ e.present /\ ~dec.err
            /\ dec.user \in held[i]
            /\ dec.user # db[i]
            /\ \E g \in Reqs : /\ task[g].state = "finished"
                               /\ task[g].err = "nil"
                               /\ task[g].jsonData = e.val

\* C19: the key is the same function of the id everywhere, and it is
\* injective: two ids have the same key only if they are equal; GetUserByID
\* holds the key of its id, the Set of its population task changes only
\* that key and puts under it an entity with that id, and the Delete of
\* CreateUser and UpdateUser is for the key of the id they wrote and
\* changes no other key.
C19_KeyInjectiveAndShared ==
    /\ [](/\ \A i, j \in 0..(MaxId + 1) :
               Sprintf(UserCacheKey, i) = Sprintf(UserCacheKey, j) <=> i = j
          /\ \A r \in Reqs :
               /\ req[r].op = "get"
                  => req[r].cacheKey = Sprintf(UserCacheKey, req[r].id)
               /\ (req[r].op \in {"create", "update"}
                   /\ Called(r, "redis.del"))
                  => req[r].cacheKey = Sprintf(UserCacheKey, req[r].user.ID))
    /\ [][\A r \in Reqs, k \in Keys :
            /\ (task'[r] # task[r] /\ cache'[k] # cache[k])
               => /\ k = Sprintf(UserCacheKey, req[r].id)
                  /\ Unmarshal(cache'[k].val, ZeroUser).user.ID = req[r].id
            /\ (req[r].pc = "redis_del" /\ req'[r].pc = "return"
                /\ cache'[k] # cache[k])
               => k = Sprintf(UserCacheKey, req[r].user.ID)]_vars

\* C19 witness: a GetUserByID of one id populated its key and an UpdateUser
\* of another id deleted its own, different key; the populated entry stays
C19_Witness ==
    \E g, w \in Reqs :
        /\ req[g].op = "get" /\ task[g].state = "finished"
        /\ task[g].err = "nil"
        /\ req[w].op = "update" /\ req[w].pc = "done"
        /\ Logged(w, "redis.del", "nil")
        /\ req[w].user.ID # req[g].id
        /\ req[w].cacheKey # req[g].cacheKey
        /\ cache[req[g].cacheKey].present
        /\ cache[req[g].cacheKey].val = task[g].jsonData

\* C20: for every row the table has held and First can return, decoding
\* its encoding into a fresh struct succeeds and gives the row back field
\* for field; so the bytes a population task marshalled decode to the row
\* its GetUserByID fetched, and a GetUserByID answered from the cache
\* returns a row the table has held for that id.
C20_EncodeDecodeRoundTrip ==
    /\ \A i \in Ids : \A e \in held[i] :
          e.DeletedAt = 0
          => Unmarshal(Marshal(e), ZeroUser) = [user |-> e, err |-> FALSE]
    /\ \A g \in Reqs :
          /\ task[g].state \in {"marshalled", "finished"}
             => Unmarshal(task[g].jsonData, ZeroUser) =
                  [user |-> req[g].fetched, err |-> FALSE]
          /\ (req[g].op = "get" /\ req[g].pc = "done"
              /\ Logged(g, "json.unmarshal", "nil"))
             => req[g].ret \in held[req[g].id]

\* C20 witness: a row created with age 0 and given status 1 by the store,
\* then fetched, marshalled and stored by one GetUserByID, is under its key
\* and decodes to the fetched row
C20_Witness ==
    \E g, w \in Reqs :
        /\ req[w].op = "create" /\ req[w].pc = "done" /\ req[w].err = "nil"
        /\ req[g].op = "get" /\ req[g].id = req[w].user.ID
        /\ task[g].state = "finished" /\ task[g].err = "nil"
        /\ req[g].fetched = db[req[g].id]
        /\ req[g].fetched.Age = 0 /\ req[g].fetched.CreatedAt > 1
        /\ cache[req[g].cacheKey].present
        /\ Unmarshal(cache[req[g].cacheKey].val, ZeroUser) =
             [user |-> req[g].fetched, err |-> FALSE]

\* how many times x occurs in the sequence s
Count(s, x) == Cardinality({k \in DOMAIN s : s[k] = x})

\* the recorded spans that invocation i started
SpansBy(i) == {s \in DOMAIN spans : spans[s].by = i}

\* C21: every invocation of a wrapped function calls Tracer.Start once,
\* when it begins, and span.End once, when it is left, whether the inner
\* function returned a result, returned an error or panicked, and however
\* many invocations run at once; a recording provider holds for the
\* invocation exactly one span, with one start and, once the invocation is
\* over, one end.
C21_OneStartOneEnd ==
    \A i \in Invs :
        LET c == inv[i].calls
        IN  /\ Count(c, "Start") = IF inv[i].pc \in {"idle", "start"}
                                   THEN 0 ELSE 1
            /\ Count(c, "End") = IF inv[i].pc = "done" THEN 1 ELSE 0
            /\ inv[i].pc = "done" => inv[i].ret.kind \in {"return", "panic"}
            /\ tracing
               => /\ Cardinality(SpansBy(i)) = Count(c, "Start")
                  /\ \A s \in SpansBy(i) :
                        /\ s = inv[i].span
                        /\ Count(spans[s].events, "Start") = 1
                        /\ Count(spans[s].events, "End") = Count(c, "End")
            /\ ~tracing => spans = <<>>

\* C21 witness: two invocations of the same wrapped function overlap; the
\* one that started later panicked and its span has its one end, the other
\* is still in its inner function
C21_Witness ==
    \E i, j \in Invs :
        /\ tracing /\ inv[i].w = inv[j].w
        /\ inv[i].parent = 0 /\ inv[j].parent = 0
        /\ inv[j].pc = "running" /\ inv[j].span < inv[i].span
        /\ inv[i].pc = "done" /\ inv[i].ret = Panicked
        /\ Count(spans[inv[i].span].events, "End") = 1
        /\ Count(spans[inv[j].span].events, "End") = 0

\* C22: an invocation of a wrapped function calls the inner function once,
\* with the argument it was given, and comes to exactly what the inner
\* function came to, the same result and the same error, whether the
\* provider records or not.
C22_WrapperTransparent ==
    \A i \in Invs :
        /\ Count(inv[i].calls, "fn") =
             IF inv[i].pc \in {"running", "after", "end", "done"}
             THEN 1 ELSE 0
        /\ inv[i].pc \in {"running", "after", "end", "done"}
           => inv[i].fnArg = inv[i].arg
        /\ inv[i].pc = "done"
           => /\ inv[i].ret = inv[i].out
              /\ inv[i].out \in Outcomes(inv[i].w.fn, inv[i].arg)

\* C22 witness: with tracing disabled, one invocation returned the error of
\* its inner function and another the result computed from its argument
C22_Witness ==
    \E i, j \in Invs :
        /\ ~tracing
        /\ inv[i].pc = "done" /\ inv[i].arg = Num(0)
        /\ inv[i].ret = Returned("", "Calculate failed")
        /\ inv[j].pc = "done" /\ inv[j].arg = Num(5)
        /\ inv[j].ret = Returned("Calculate(5)", "nil")

\* the place of the first x in the sequence s, 0 when there is none
Place(s, x) ==
    IF \E k \in DOMAIN s : s[k] = x
    THEN CHOOSE k \in DOMAIN s : s[k] = x /\ \A j \in 1..(k - 1) : s[j] # x
    ELSE 0

\* the inner function of invocation i returned a non-nil error
Failed(i) == inv[i].out.kind = "return" /\ inv[i].out.err # "nil"

\* C23: an invocation calls RecordError and SetStatus(codes.Error) if and
\* only if its inner function returned a non-nil error, and does so before
\* span.End; so a recorded span that has ended carries status Error and the
\* recorded error, both with the error's text and from before its end,
\* exactly when the inner function returned that error, and the span of an
\* invocation that succeeded or panicked keeps its status unset.
C23_ErrorStatusIffError ==
    \A i \in Invs :
        LET c == inv[i].calls
            s == inv[i].span
        IN  /\ inv[i].pc \in {"end", "done"}
               => /\ Count(c, "RecordError") = IF Failed(i) THEN 1 ELSE 0
                  /\ Count(c, "SetStatus") = IF Failed(i) THEN 1 ELSE 0
            /\ inv[i].pc \notin {"end", "done"}
               => Count(c, "RecordError") = 0 /\ Count(c, "SetStatus") = 0
            /\ (inv[i].pc = "done" /\ Failed(i))
               => Place(c, "RecordError") < Place(c, "End")
            /\ (s > 0 /\ inv[i].pc = "done")
               => LET e == spans[s].events
                      rec == "RecordError:" \o inv[i].out.err
                  IN  IF Failed(i)
                      THEN /\ spans[s].status = "Error"
                           /\ spans[s].description = inv[i].out.err
                           /\ 0 < Place(e, rec)
                           /\ Place(e, rec) < Place(e, "End")
                           /\ Place(e, "SetStatus") < Place(e, "End")
                      ELSE /\ spans[s].status = "Unset"
                           /\ \A k \in DOMAIN e :
                                 e[k] \in {"Start", "SetAttributes", "End"}
            /\ (s > 0 /\ inv[i].pc # "done" /\ ~Failed(i))
               => spans[s].status = "Unset"

\* C23 witness: one span ended with status Error after the error of its
\* inner function was recorded, another ended with its status unset after
\* its inner function succeeded
C23_Witness ==
    \E i, j \in Invs :
        /\ tracing /\ inv[i].pc = "done" /\ inv[j].pc = "done"
        /\ inv[i].ret = Returned("", "Process failed")
        /\ spans[inv[i].span].status = "Error"
        /\ spans[inv[i].span].events =
             <<"Start", "SetAttributes", "RecordError:Process failed",
               "SetStatus", "End">>
        /\ inv[j].ret.err = "nil" /\ inv[j].ret.kind = "return"
        /\ spans[inv[j].span].status = "Unset"

\* the calls a complete invocation i makes, in the order of the closure's
\* body
Expected(i) ==
    LET w == inv[i].w
    IN  <<"Start">>
        \o (IF w.attrFunc = "nil" THEN <<>>
            ELSE IF Len(AttrFunc(w.attrFunc, inv[i].arg)) > 0
                 THEN <<"attrFunc", "SetAttributes">>
                 ELSE <<"attrFunc">>)
        \o <<"fn">>
        \o (IF Failed(i) THEN <<"RecordError", "SetStatus">> ELSE <<>>)
        \o <<"End">>

\* the inner function of invocation i has been called
FnStarted(i) == inv[i].pc \in {"running", "after", "end", "done"}

\* C24: the calls of an invocation are, at every moment, a beginning of:
\* Tracer.Start, the attribute function and SetAttributes, the inner
\* function, the error calls, span.End; all of them once the invocation is
\* over. When an attribute function was supplied it has been evaluated once
\* and its attributes, computed from the invocation's argument, are on the
\* recorded span by the time the inner function starts; when it is nil it
\* is never evaluated, the span has no attributes, and the inner function
\* can start.
C24_StepOrder ==
    \A i \in Invs :
        LET c == inv[i].calls
            w == inv[i].w
        IN  /\ inv[i].pc # "idle"
               => /\ Len(c) <= Len(Expected(i))
                  /\ c = SubSeq(Expected(i), 1, Len(c))
            /\ inv[i].pc = "done" => c = Expected(i)
            /\ FnStarted(i)
               => /\ Count(c, "attrFunc") = IF w.attrFunc = "nil" THEN 0
                                            ELSE 1
                  /\ inv[i].span > 0
                     => spans[inv[i].span].attrs =
                          AttrFunc(w.attrFunc, inv[i].arg)
            /\ (inv[i].pc = "attrs" /\ w.attrFunc = "nil")
               => ENABLED (Wrapped_Attrs(i) /\ inv'[i].pc = "fn"
                           /\ spans' = spans)
            /\ inv[i].pc = "fn" => ENABLED Wrapped_Fn(i)

\* C24 witness: the inner function of Calculate(5) is running with the three
\* attributes on its span, and that of a function wrapped with a nil
\* attribute function is running with none
C24_Witness ==
    \E i, j \in Invs :
        /\ tracing
        /\ inv[i].pc = "running" /\ inv[i].arg = Num(5)
        /\ inv[i].calls = <<"Start", "attrFunc", "SetAttributes", "fn">>
        /\ spans[inv[i].span].attrs[3] = KeyValue("input.number", Num(5))
        /\ Len(spans[inv[i].span].attrs) = 3
        /\ inv[j].pc = "running" /\ inv[j].w.attrFunc = "nil"
        /\ inv[j].calls = <<"Start", "fn">>
        /\ spans[inv[j].span].attrs = <<>>

\* C25: when the inner function of invocation p calls a wrapped function
\* with the context it received, that call c is given the context the
\* Start of p derived, runs from its Start to its End while p is inside its
\* inner function, so after the Start of p and before the End of p; and a
\* recording provider holds two different spans for them, the span of c
\* having the span of p as its parent (not the parent of p), having started
\* after it, and having ended whenever the span of p has ended.
C25_NestedSpansChain ==
    \A c \in Invs :
        LET p == inv[c].parent
        IN  p # 0
            => /\ inv[c].ctxIn = inv[p].ctx
               /\ Count(inv[p].calls, "Start") = 1
               /\ inv[c].pc # "done"
                  => inv[p].pc = "running" /\ Count(inv[p].calls, "End") = 0
               /\ Count(inv[p].calls, "End") = 1
                  => Count(inv[c].calls, "End") = 1
               /\ (tracing /\ inv[c].pc \notin {"idle", "start"})
                  => LET sc == inv[c].span
                         sp == inv[p].span
                     IN  /\ sp > 0 /\ sc > sp
                         /\ spans[sc].parent = sp
                         /\ spans[sc].parent # spans[sp].parent
                         /\ spans[sc].by = c /\ spans[sp].by = p
                         /\ Count(spans[sp].events, "End") = 1
                            => Count(spans[sc].events, "End") = 1

\* C25 witness: Calculate's inner function called Process with its
\* context; both are over and the provider holds the Process span as child
\* of the Calculate span, each with its end
C25_Witness ==
    \E p, c \in Invs :
        /\ tracing /\ inv[c].parent = p
        /\ inv[p].pc = "done" /\ inv[c].pc = "done"
        /\ Len(spans) = 2
        /\ spans[1].name = "ServiceC.Calculate" /\ spans[1].parent = 0
        /\ spans[2].name = "ServiceC.Process" /\ spans[2].parent = 1
        /\ Count(spans[1].events, "End") = 1
        /\ Count(spans[2].events, "End") = 1

\* request r is a GetUserByID, CreateUser or UpdateUser called with a
\* context that was already cancelled or past its deadline
DeadCall(r) ==
    req[r].deadAtCall /\ req[r].op \in {"get", "create", "update"}

\* C26 as stated: a GetUserByID, CreateUser or UpdateUser called with a
\* context already cancelled returns the cancellation error.
C26_DeadContextReturnsCancellation ==
    \A r \in Reqs :
        (DeadCall(r) /\ req[r].pc = "done")
        => req[r].err = "context canceled"

\* C26: a GetUserByID, CreateUser or UpdateUser called with a context
\* already cancelled, with input that passes validation, returns the
\* cancellation error, which is not the not-found error; input that fails
\* validation is answered with the validation error before any store or
\* cache call. Either way every store and cache call it makes fails with
\* the cancellation error at once, it can always take its next step, it
\* starts no population task, and its steps change neither the table nor
\* the cache.
C26_DeadContextFailsFast ==
    /\ [](\A r \in Reqs :
            DeadCall(r)
            => /\ req[r].pc = "done"
                  => \/ req[r].err = "context canceled"
                     \/ req[r].err = "validation" /\ req[r].log = <<>>
               /\ \A k \in DOMAIN req[r].log :
                     req[r].log[k].err = "context canceled"
               /\ task[r].state = "none" /\ req[r].wroteAt = 0
               /\ req[r].pc \in {"redis_get", "db_first", "db_check",
                                 "db_update"}
                  => ENABLED (\/ GetUserByID_RedisGet(r)
                              \/ GetUserByID_DBFirst(r)
                              \/ CreateUser_Check(r)
                              \/ UpdateUser_Updates(r))
               /\ (req[r].pc = "db_create" /\ NextID <= MaxId)
                  => ENABLED CreateUser_Create(r))
    /\ [][\A r \in Reqs :
            (req'[r].deadAtCall /\ req'[r] # req[r]
             /\ req'[r].op \in {"get", "create", "update"})
            => db' = db /\ cache' = cache]_vars

\* C26 witness: a GetUserByID and a CreateUser with valid input, both called
\* with a cancelled context, have returned the cancellation error after
\* their cache and store calls failed with it
C26_Witness ==
    \E g, w \in Reqs :
        /\ DeadCall(g) /\ req[g].op = "get" /\ req[g].pc = "done"
        /\ req[g].err = "context canceled" /\ req[g].retNil
        /\ req[g].log = << Call("redis.get", "context canceled"),
                           Call("db.first", "context canceled") >>
        /\ DeadCall(w) /\ req[w].op = "create" /\ req[w].pc = "done"
        /\ req[w].err = "context canceled"
        /\ Logged(w, "db.create", "context canceled")
        /\ db \in InitialTables

C28_UpdateOfMissingIdReportsNotFound ==
    [][\A r \in Reqs :
         ( /\ req[r].op = "update" /\ req[r].pc = "db_update"
           /\ req'[r].pc # "db_update"
           /\ req[r].user.ID # 0
           /\ ~HasRow(req[r].user.ID)
           /\ LastCall(req'[r]).err \notin {"db error", "context canceled"} )
         => /\ req'[r].pc = "done"
            /\ req'[r].err = "record not found"
            /\ db' = db]_vars

\* A call whose input the function's first check rejects
Malformed(q) ==
    \/ q.op = "create" /\ (q.user.Name = "" \/ q.user.Email = "")
    \/ q.op = "update" /\ q.user.ID = 0

\* C29: CreateUser with an empty name or an empty email, and UpdateUser with
\* id 0, end at once with the validation error having made no store call and
\* no cache call, and the step that takes the call leaves the store and the
\* cache as they were.
C29_MalformedInputTouchesNothing ==
    /\ [](\A r \in Reqs :
            Malformed(req[r])
            => /\ req[r].pc = "done"
               /\ req[r].err = "validation"
               /\ req[r].log = <<>>
               /\ task[r].state = "none")
    /\ [][\A r \in Reqs :
            (req[r].op = "none" /\ Malformed(req'[r]))
            => (db' = db /\ cache' = cache)]_vars

C29_Witness ==
    \E r, s \in Reqs :
        /\ req[r].op = "create" /\ req[r].user.Name # ""
        /\ req[r].user.Email = "" /\ req[r].err = "validation"
        /\ req[s].op = "update" /\ req[s].user.ID = 0
        /\ req[s].err = "validation"

\* A cache delete of request s that failed
CacheDelFailed(s) ==
    \E n \in DOMAIN req[s].log :
        /\ req[s].log[n].call = "redis.del"
        /\ req[s].log[n].err # "nil"

\* Every call on the id started while no other call on it was in flight
NoOverlap(id) == \A s \in Reqs : OnId(req[s]) = id => req[s].alone

\* No call on the id is in flight
AtRest(id) == \A s \in Reqs : OnId(req[s]) = id => ~InFlight(s)

\* C30: when the calls on an id have not overlapped (each started after the
\* earlier ones, population tasks included, had ended) and no cache delete
\* has failed, then whenever no call on the id is in flight the entry the
\* service keeps under the id's key, if there is one, decodes to the row the
\* store holds for the id.
C30_SequentialCallsLeaveNoStaleEntry ==
    \A id \in Ids :
        ( /\ NoOverlap(id)
          /\ \A s \in Reqs : ~CacheDelFailed(s)
          /\ AtRest(id) )
        => ~Stale(id)

C30_Witness ==
    \E w, g \in Reqs :
        /\ req[w].op = "update" /\ req[w].pc = "done"
        /\ Logged(w, "db.update", "nil") /\ Logged(w, "redis.del", "nil")
        /\ req[w].wroteAt > 0
        /\ Missed(g) /\ req[g].id = req[w].user.ID /\ req[g].pc = "done"
        /\ task[g].state = "finished" /\ task[g].err = "nil"
        /\ req[w].alone /\ req[g].alone
        /\ ~CacheDelFailed(w) /\ ~CacheDelFailed(g)
        /\ LET e == cache[req[g].cacheKey]
           IN  /\ e.present /\ e.at >= req[w].wroteAt
               /\ Unmarshal(e.val, ZeroUser).user = db[req[g].id]
               /\ db[req[g].id].Name = req[w].user.Name

\* C31: the bytes a population task encodes and stores are the encoding of
\* the row its GetUserByID call fetched from the store, whatever the caller
\* writes to the returned entity while the task is pending.
C31_PopulationEncodesFetchedRow ==
    \A r \in Reqs :
        task[r].state \in {"marshalled", "finished"}
        => task[r].jsonData = Marshal(req[r].fetched)

\* C32: a population task stores an entry only when json.Marshal succeeded:
\* whenever its Set stores a value, that value decodes without error, and a
\* failed encoding leaves no entry under the key.
C32_PopulationStoresOnlyEncodings ==
    [][\A r \in Reqs :
         ( /\ task[r].state = "marshalled"
           /\ task'[r].state = "finished" /\ task'[r].err = "nil" )
         => LET e == cache'[req[r].cacheKey]
            IN  e.present => ~Unmarshal(e.val, ZeroUser).err]_vars

\* The error the store's write of request q answered, "nil" when it has not
\* failed
WriteError(q) ==
    IF \E n \in DOMAIN q.log :
          q.log[n].call \in {"db.create", "db.update"} /\ q.log[n].err # "nil"
    THEN LastCall(q).err
    ELSE "nil"

\* C33: when the store's Create or Updates answers an error, CreateUser and
\* UpdateUser end at once with that error and issue no cache delete; the step
\* of the failed write leaves the cache and the store as they were.
C33_FailedWriteLeavesCache ==
    /\ [](\A r \in Reqs :
            WriteError(req[r]) # "nil"
            => /\ req[r].pc = "done"
               /\ req[r].err = WriteError(req[r])
               /\ LastCall(req[r]).call \in {"db.create", "db.update"}
               /\ ~Called(r, "redis.del"))
    /\ [][\A r \in Reqs :
            (WriteError(req[r]) = "nil" /\ WriteError(req'[r]) # "nil")
            => (cache' = cache /\ db' = db)]_vars

C33_Witness ==
    \E c, u \in Reqs :
        /\ req[c].op = "create" /\ Logged(c, "db.create", "duplicate entry")
        /\ req[c].err = "duplicate entry"
        /\ req[u].op = "update" /\ Logged(u, "db.update", "db error")
        /\ req[u].err = "db error"
        /\ cache[Sprintf(UserCacheKey, req[u].user.ID)].present

\* C34: CreateUser's email lookup decides the insert: when it finds a row the
\* call ends with the email-exists error and the store and the cache are as
\* they were, and the call goes on to Create only when the lookup answered
\* that no such row exists.
C34_InsertOnlyAfterNotFound ==
    [][\A r \in Reqs :
         (req[r].op = "create" /\ req[r].pc = "db_check"
          /\ req'[r].pc # "db_check")
         => /\ db' = db /\ cache' = cache
            /\ IF LastCall(req'[r]).err = "nil"
               THEN req'[r].pc = "done" /\ req'[r].err = "email exists"
               ELSE /\ req'[r].pc = "db_create"
                    /\ LastCall(req'[r]).err = "record not found"]_vars

C36_UpdateWritesSelectedColumns ==
    [][\A r \in Reqs :
         (req'[r].op = "update" /\ req'[r] # req[r])
         => LET id == req'[r].user.ID
                u == req'[r].user
            IN  /\ \A i \in Ids \ {id} : db'[i] = db[i]
                /\ id \in Ids
                   => /\ db'[id].ID = db[id].ID
                      /\ db'[id].CreatedAt = db[id].CreatedAt
                      /\ db'[id].DeletedAt = db[id].DeletedAt
                /\ ( /\ req[r].pc = "db_update" /\ Live(id)
                     /\ LastCall(req'[r]).err = "nil" )
                   => /\ db'[id].Name = u.Name /\ db'[id].Email = u.Email
                      /\ db'[id].Age = u.Age /\ db'[id].Status = u.Status
                      /\ db'[id].UpdatedAt > db[id].UpdatedAt]_vars

C36_Witness ==
    \E r \in Reqs :
        /\ req[r].op = "update" /\ req[r].pc = "done" /\ req[r].err = "nil"
        /\ Logged(r, "db.update", "nil")
        /\ req[r].user.ID = 1 /\ req[r].user.Age = 0 /\ req[r].user.Status = 0
        /\ db[1].Name = req[r].user.Name /\ db[1].Email = req[r].user.Email
        /\ db[1].Age = 0 /\ db[1].Status = 0
        /\ db[1].CreatedAt = 1 /\ db[1].UpdatedAt > 1

\* The cache key of the id a request works on
KeyOf(q) ==
    IF q.op = "get" THEN Sprintf(UserCacheKey, q.id)
    ELSE Sprintf(UserCacheKey, q.user.ID)

\* C37: a step of GetUserByID, of its population task, of CreateUser or of
\* UpdateUser for id i leaves the entry of every key other than i's as it
\* was, and what GetUserByID's Get answers is the presence of the entry
\* under i's key.
C37_StepsTouchOwnKeyOnly ==
    [][\A r \in Reqs :
         (req'[r] # req[r] \/ task'[r] # task[r])
         => LET k == KeyOf(req'[r])
            IN  /\ \A j \in Keys \ {k} : cache'[j] = cache[j]
                /\ (req[r].op = "get" /\ req[r].pc = "redis_get")
                   => /\ LastCall(req'[r]).err = "nil"
                         => k \in Keys /\ cache[k].present
                      /\ LastCall(req'[r]).err = "redis.Nil"
                         => k \in Keys /\ ~cache[k].present]_vars

C37_Witness ==
    \E c, g \in Reqs :
        /\ req[c].op = "create" /\ req[c].pc = "done"
        /\ Logged(c, "redis.del", "nil") /\ req[c].user.ID = 2
        /\ Missed(g) /\ req[g].id = 2
        /\ task[g].state = "finished" /\ task[g].err = "nil"
        /\ cache[Sprintf(UserCacheKey, 2)].present
        /\ cache[Sprintf(UserCacheKey, 2)].at > 1
        /\ cache[Sprintf(UserCacheKey, 1)].present
        /\ cache[Sprintf(UserCacheKey, 1)].at = 1

====
